---- MODULE Spec2Model ----
(***************************************************************************)
(* Model of the SPICE essential-gate writer of OpenFPGA                    *)
(* (openfpga/src/fpga_spice/spice_essential_gates.cpp).                    *)
(*                                                                         *)
(* Two drivers write one netlist file each:                                *)
(*   print_spice_transistor_wrapper  - one wrapper pair per transistor     *)
(*                                     technology model                    *)
(*   print_spice_essential_gates     - one subcircuit per inverter/buffer  *)
(*                                     circuit model                       *)
(*                                                                         *)
(* Text is modelled as it is produced: a line is the sequence of its       *)
(* blank-separated fields, a field is the sequence of the pieces the code  *)
(* streams with << before the next blank.  Numeric parameters (W=, L=) are *)
(* kept beside the fields with their value.  Widths and lengths are        *)
(* integers counted in one common grid unit, so that fmod, ceil and the    *)
(* products of the code are exact.                                         *)
(***************************************************************************)
EXTENDS Integers, Sequences, FiniteSets, TLC

VARIABLES
  circuit_lib,          \* CircuitLibrary: sequence of circuit models (read only)
  tech_lib,             \* TechnologyLibrary: sequence of technology models (read only)
  circuit_tech_binding, \* std::map<CircuitModelId, TechnologyModelId>; 0 = no entry
  fp,                   \* the driver's std::fstream
  netlist_manager,      \* NetlistManager: sequence of registered netlists
  pc,                   \* position of the running driver
  imodel,               \* loop position of the running driver (1-based id)
  status,               \* the driver's return value
  visited,              \* ids of the models whose loop iteration has started
  driver,               \* the driver that was called
  last_pass,            \* what the previous run of a driver left behind
  phy_pb,               \* PhysicalPb: the atom net of each pb_graph pin of each pb
  last_call             \* the arguments of the last atom-net update, and what it found

vars == <<circuit_lib, tech_lib, circuit_tech_binding, fp, netlist_manager,
          pc, imodel, status, visited, driver, last_pass, phy_pb, last_call>>

-----------------------------------------------------------------------------
(* Bounds of the model *)

MaxSize == 2        \* buffer_size ranges over 1..MaxSize
MaxPins == 2        \* pins of an enable / enable-bar port
MaxLevels == 3      \* buffer_num_levels of a multi-stage buffer
MaxModels == 2      \* circuit models in a library of several models
MaxTechModels == 2  \* technology models in the wrapper driver's library
MaxFail == 2        \* a failing stream fails after 0..MaxFail more lines
MaxPbs == 1         \* primitive pbs of the physical pb
MaxPbPins == 2      \* physical pb_graph pins of a primitive pb
MaxNets == 2        \* atom nets

-----------------------------------------------------------------------------
(* Return codes, command_exit_codes.h *)

CMD_EXEC_SUCCESS == "CMD_EXEC_SUCCESS"
CMD_EXEC_FATAL_ERROR == "CMD_EXEC_FATAL_ERROR"
\* a failed VTR_ASSERT ends the process: no status is returned
ASSERT_FAILED == "ASSERT_FAILED"

TRANSISTOR_WRAPPER_POSTFIX == "_wrapper"
TRANSISTORS_SPICE_FILE_NAME == "transistor.sp"
ESSENTIALS_SPICE_FILE_NAME == "essential_gates.sp"
SUBMODULE_NETLIST == "SUBMODULE_NETLIST"

-----------------------------------------------------------------------------
(* Text *)

RECURSIVE Text(_)
\* the characters of one field: its pieces, concatenated
Text(field) == IF field = <<>> THEN "" ELSE Head(field) \o Text(Tail(field))

NoParams == <<>>

Line(fields, params) == [fields |-> fields, params |-> params]

\* fp << " W=" << std::setprecision(10) << trans_width: ten significant
\* digits print every width below 10^10 exactly
WParam(trans_width) == <<"W", trans_width>>

-----------------------------------------------------------------------------
(* The output stream *)

\* std::fstream after fp.open(..., out | trunc) and check_file_stream, which
\* ends the process when the file could not be opened
OpenedStream == [is_open |-> TRUE, good |-> TRUE, lines |-> <<>>,
                 failing |-> FALSE, left |-> 0, closed_by |-> "none",
                 fatal |-> FALSE, late |-> 0]

valid_file_stream(f) == f.is_open /\ f.good

\* One line streamed with <<.  A stream that is not good ignores the output;
\* a write the device refuses leaves the stream in the failed state.  The
\* field `late` counts the lines streamed after a routine working on the
\* stream has returned CMD_EXEC_FATAL_ERROR.
Write(f, line) ==
  IF ~(f.is_open /\ f.good) THEN [f EXCEPT !.late = IF f.fatal THEN @ + 1 ELSE @]
  ELSE IF f.failing /\ f.left = 0 THEN [f EXCEPT !.good = FALSE]
  ELSE [f EXCEPT !.lines = Append(@, line),
                 !.left = IF f.failing THEN @ - 1 ELSE @]

\* the environment of one call: the device fails after `left` more lines
Arm(f, failing, left) == [f EXCEPT !.failing = failing, !.left = left]
Settle(f) == [f EXCEPT !.failing = FALSE, !.left = 0]

CloseNothing(f) == f
\* fp.close()
Close(f) == [f EXCEPT !.is_open = FALSE, !.closed_by = "close"]

DestroyNoClose(f) == f
\* `std::fstream fp;` is a local object of the driver: leaving the function
\* by return destroys it, and the destructor closes a file that is still open
Destroy(f) == IF f.is_open
              THEN [f EXCEPT !.is_open = FALSE, !.closed_by = "destructor"]
              ELSE f

\* what a routine hands back: its return value and the stream it worked on
Result(f, st) == [fp |-> f, status |-> st]

\* if (false == valid_file_stream(fp)) return CMD_EXEC_FATAL_ERROR;
\* the stream remembers that a routine has returned CMD_EXEC_FATAL_ERROR
ReturnFatal(f) == [fp |-> [f EXCEPT !.fatal = TRUE], status |-> CMD_EXEC_FATAL_ERROR]

-----------------------------------------------------------------------------
(* Technology query interface *)

TECH_LIB_MODEL_TRANSISTOR == "TECH_LIB_MODEL_TRANSISTOR"
TECH_LIB_MODEL_RRAM == "TECH_LIB_MODEL_RRAM"
TECH_LIB_TRANSISTOR_PMOS == "pmos"
TECH_LIB_TRANSISTOR_NMOS == "nmos"

\* for (itype = TECH_LIB_TRANSISTOR_PMOS; itype < NUM_TECH_LIB_TRANSISTOR_TYPES; ++itype)
TransistorTypes == <<TECH_LIB_TRANSISTOR_PMOS, TECH_LIB_TRANSISTOR_NMOS>>

valid_model_id(tech_model) == tech_model \in 1..Len(tech_lib)
model_type(tech_model) == tech_lib[tech_model].type
model_pn_ratio(tech_model) == tech_lib[tech_model].pn_ratio
model_ref(tech_model) == tech_lib[tech_model].ref
Transistor(tech_model, trans_type) ==
  IF trans_type = TECH_LIB_TRANSISTOR_PMOS THEN tech_lib[tech_model].pmos
                                           ELSE tech_lib[tech_model].nmos
transistor_model_name(tech_model, trans_type) ==
  Transistor(tech_model, trans_type).name \o ToString(tech_model)
transistor_model_chan_length(tech_model, trans_type) ==
  Transistor(tech_model, trans_type).chan_length
transistor_model_min_width(tech_model, trans_type) ==
  Transistor(tech_model, trans_type).min_width
transistor_model_max_width(tech_model, trans_type) ==
  Transistor(tech_model, trans_type).max_width

-----------------------------------------------------------------------------
(* Circuit query interface *)

CIRCUIT_MODEL_INVBUF == "CIRCUIT_MODEL_INVBUF"
CIRCUIT_MODEL_PASSGATE == "CIRCUIT_MODEL_PASSGATE"
CIRCUIT_MODEL_GATE == "CIRCUIT_MODEL_GATE"
CIRCUIT_MODEL_LUT == "CIRCUIT_MODEL_LUT"
CIRCUIT_MODEL_BUF_INV == "CIRCUIT_MODEL_BUF_INV"
CIRCUIT_MODEL_BUF_BUF == "CIRCUIT_MODEL_BUF_BUF"

model_name(circuit_model) == "model" \o ToString(circuit_model)
model_circuit_netlist(circuit_model) == circuit_lib[circuit_model].circuit_netlist
circuit_model_type(circuit_model) == circuit_lib[circuit_model].type
buffer_type(circuit_model) == circuit_lib[circuit_model].buffer_type
is_power_gated(circuit_model) == circuit_lib[circuit_model].is_power_gated
buffer_size(circuit_model) == circuit_lib[circuit_model].buffer_size
buffer_num_levels(circuit_model) == circuit_lib[circuit_model].buffer_num_levels
buffer_f_per_stage(circuit_model) == circuit_lib[circuit_model].buffer_f_per_stage
\* model_ports_by_type(circuit_model, type, true): the non-global ports
input_ports_of(circuit_model) == circuit_lib[circuit_model].input_ports
output_ports_of(circuit_model) == circuit_lib[circuit_model].output_ports
\* a port found by find_circuit_model_power_gate_en(b)_port; size 0 stands for
\* CircuitPortId::INVALID()
find_circuit_model_power_gate_en_port(circuit_model) ==
  [prefix |-> "EN", size |-> circuit_lib[circuit_model].en_size]
find_circuit_model_power_gate_enb_port(circuit_model) ==
  [prefix |-> "ENb", size |-> circuit_lib[circuit_model].enb_size]
valid_circuit_port_id(port) == port.size > 0
\* circuit_lib.pins(port): the pin indices 0..size-1, in order
pins(port) == [i \in 1..port.size |-> i - 1]

\* generate_spice_port(BasicPort(prefix, pin, pin)): the net of one pin
generate_spice_port(prefix, pin) == prefix \o "[" \o ToString(pin) \o "]"

\* module_manager.find_module(model_name) / module_name(module_id)
module_name(module_id) == model_name(module_id)

\* print_spice_subckt_definition: the header of a module's subcircuit
print_spice_subckt_definition(f, module_id) ==
  Write(f, Line(<< <<".subckt">>, <<module_name(module_id)>> >>, NoParams))

\* print_spice_subckt_end
print_spice_subckt_end(f, name) ==
  Write(f, Line(<< <<".ends">> >>, NoParams))

\* print_spice_file_header: the banner comment written once at file start
print_spice_file_header(f, usage) ==
  Write(f, Line(<< <<"*">>, <<usage>> >>, NoParams))

-----------------------------------------------------------------------------
(* Stage emitters *)

\* the arguments of one stage-emitter call
StageCall(trans_name_postfix, input_port_name, output_port_name, port, tech_model, trans_width) ==
  [trans_name_postfix |-> trans_name_postfix,
   input_port_name |-> input_port_name,
   output_port_name |-> output_port_name,
   port |-> port,
   tech_model |-> tech_model,
   trans_width |-> trans_width]

NoPort == [prefix |-> "", size |-> 0]

PmosWrapper(c) ==
  <<transistor_model_name(c.tech_model, TECH_LIB_TRANSISTOR_PMOS),
    TRANSISTOR_WRAPPER_POSTFIX>>
NmosWrapper(c) ==
  <<transistor_model_name(c.tech_model, TECH_LIB_TRANSISTOR_NMOS),
    TRANSISTOR_WRAPPER_POSTFIX>>

PmosPowergateLine_Parallel(c, first_enb_pin, last_enb_pin, power_gate_pin) ==
  Line(<< <<"Xpmos_powergate_", c.trans_name_postfix, "_pin_", ToString(power_gate_pin)>>,
          <<c.output_port_name, "_pmos_pg_", ToString(power_gate_pin)>>,
          <<generate_spice_port(c.port.prefix, power_gate_pin)>>,
          <<"LVDD">>,
          <<"LVDD">>,
          PmosWrapper(c) >>,
       <<WParam(c.trans_width)>>)
\* a pin loop whose nodes carry the postfix of the call: one chain per bin
PmosPowergateLine_OwnNodes(c, first_enb_pin, last_enb_pin, power_gate_pin) ==
  Line(<< <<"Xpmos_powergate_", c.trans_name_postfix, "_pin_", ToString(power_gate_pin)>> >>
       \o (IF first_enb_pin
           THEN << <<c.output_port_name, "_", c.trans_name_postfix, "_pmos_pg_", ToString(power_gate_pin)>>,
                   <<generate_spice_port(c.port.prefix, power_gate_pin)>>,
                   <<"LVDD">>,
                   <<"LVDD">> >>
           ELSE << <<c.output_port_name, "_", c.trans_name_postfix, "_pmos_pg_", ToString(last_enb_pin)>>,
                   <<generate_spice_port(c.port.prefix, power_gate_pin)>>,
                   <<c.output_port_name, "_", c.trans_name_postfix, "_pmos_pg_", ToString(power_gate_pin)>>,
                   <<"LVDD">> >>)
       \o << PmosWrapper(c) >>,
       <<WParam(c.trans_width)>>)

\* one iteration of the enable-bar pin loop: the switch of one pin
PmosPowergateLine(c, first_enb_pin, last_enb_pin, power_gate_pin) ==
  Line(<< <<"Xpmos_powergate_", c.trans_name_postfix, "_pin_", ToString(power_gate_pin)>> >>
       \o (IF first_enb_pin
           THEN << <<c.output_port_name, "_pmos_pg_", ToString(power_gate_pin)>>,
                   <<generate_spice_port(c.port.prefix, power_gate_pin)>>,
                   <<"LVDD">>,
                   <<"LVDD">> >>
           ELSE << <<c.output_port_name, "_pmos_pg_", ToString(last_enb_pin)>>,
                   <<generate_spice_port(c.port.prefix, power_gate_pin)>>,
                   <<c.output_port_name, "_pmos_pg_", ToString(power_gate_pin)>>,
                   <<"LVDD">> >>)
       \o << PmosWrapper(c) >>,
       <<WParam(c.trans_width)>>)

\* the core device written after the enable-bar pin loop
PmosPowergatedCoreLine(c) ==
  Line(<< <<"Xpmos_", c.trans_name_postfix>>,
          <<c.output_port_name>>,
          <<c.input_port_name>>,
          <<c.output_port_name, "_pmos_pg_", ToString(pins(c.port)[Len(pins(c.port))])>>,
          <<"LVDD">>,
          PmosWrapper(c) >>,
       <<WParam(c.trans_width)>>)

RECURSIVE PmosPowergateLoop(_, _, _, _, _)
\* for (const auto& power_gate_pin : circuit_lib.pins(enb_port)), from the
\* i-th pin on, with the loop's two variables
PmosPowergateLoop(f, c, i, first_enb_pin, last_enb_pin) ==
  IF i > Len(pins(c.port)) THEN f
  ELSE PmosPowergateLoop(
         Write(f, PmosPowergateLine(c, first_enb_pin, last_enb_pin, pins(c.port)[i])),
         c, i + 1, FALSE, pins(c.port)[i])

print_spice_powergated_inverter_pmos_modeling_SkipPin(f, c) ==
  IF ~valid_file_stream(f) THEN ReturnFatal(f)
  ELSE Result(Write(PmosPowergateLoop(f, c, 2, FALSE, 0), PmosPowergatedCoreLine(c)),
              CMD_EXEC_SUCCESS)
print_spice_powergated_inverter_pmos_modeling(f, c) ==
  IF ~valid_file_stream(f) THEN ReturnFatal(f)
  ELSE Result(Write(PmosPowergateLoop(f, c, 1, TRUE, 0), PmosPowergatedCoreLine(c)),
              CMD_EXEC_SUCCESS)

NmosPowergateLine_MinWidth(c, first_en_pin, last_en_pin, power_gate_pin) ==
  Line(<< <<"Xnmos_powergate_", c.trans_name_postfix, "_pin_", ToString(power_gate_pin)>> >>
       \o (IF first_en_pin
           THEN << <<c.output_port_name, "_nmos_pg_", ToString(power_gate_pin)>>,
                   <<generate_spice_port(c.port.prefix, power_gate_pin)>>,
                   <<"LGND">>,
                   <<"LGND">> >>
           ELSE << <<c.output_port_name, "_nmos_pg_", ToString(last_en_pin)>>,
                   <<c.port.prefix>>,
                   <<c.output_port_name, "_nmos_pg_", ToString(power_gate_pin)>>,
                   <<"LGND">> >>)
       \o << NmosWrapper(c) >>,
       <<WParam(transistor_model_min_width(c.tech_model, TECH_LIB_TRANSISTOR_NMOS))>>)
\* one iteration of the enable pin loop: the switch of one pin
NmosPowergateLine(c, first_en_pin, last_en_pin, power_gate_pin) ==
  Line(<< <<"Xnmos_powergate_", c.trans_name_postfix, "_pin_", ToString(power_gate_pin)>> >>
       \o (IF first_en_pin
           THEN << <<c.output_port_name, "_nmos_pg_", ToString(power_gate_pin)>>,
                   <<generate_spice_port(c.port.prefix, power_gate_pin)>>,
                   <<"LGND">>,
                   <<"LGND">> >>
           ELSE << <<c.output_port_name, "_nmos_pg_", ToString(last_en_pin)>>,
                   <<c.port.prefix>>,
                   <<c.output_port_name, "_nmos_pg_", ToString(power_gate_pin)>>,
                   <<"LGND">> >>)
       \o << NmosWrapper(c) >>,
       <<WParam(c.trans_width)>>)

\* the core device written after the enable pin loop; the code streams
\* output_port_name << " _nmos_pg_": the blank ends the field
NmosPowergatedCoreLine(c) ==
  Line(<< <<"Xnmos_", c.trans_name_postfix>>,
          <<c.output_port_name>>,
          <<c.input_port_name>>,
          <<c.output_port_name>>,
          <<"_nmos_pg_", ToString(pins(c.port)[Len(pins(c.port))])>>,
          <<"LGND">>,
          NmosWrapper(c) >>,
       <<WParam(c.trans_width)>>)

RECURSIVE NmosPowergateLoop(_, _, _, _, _)
\* for (const auto& power_gate_pin : circuit_lib.pins(en_port))
NmosPowergateLoop(f, c, i, first_en_pin, last_en_pin) ==
  IF i > Len(pins(c.port)) THEN f
  ELSE NmosPowergateLoop(
         Write(f, NmosPowergateLine(c, first_en_pin, last_en_pin, pins(c.port)[i])),
         c, i + 1, FALSE, pins(c.port)[i])

print_spice_powergated_inverter_nmos_modeling(f, c) ==
  IF ~valid_file_stream(f) THEN ReturnFatal(f)
  ELSE Result(Write(NmosPowergateLoop(f, c, 1, TRUE, 0), NmosPowergatedCoreLine(c)),
              CMD_EXEC_SUCCESS)

RegularPmosLine_GateDrainSwapped(c) ==
  Line(<< <<"Xpmos_", c.trans_name_postfix>>,
          <<c.input_port_name>>,
          <<c.output_port_name>>,
          <<"LVDD">>,
          <<"LVDD">>,
          PmosWrapper(c) >>,
       <<WParam(c.trans_width)>>)

RegularPmosLine(c) ==
  Line(<< <<"Xpmos_", c.trans_name_postfix>>,
          <<c.output_port_name>>,
          <<c.input_port_name>>,
          <<"LVDD">>,
          <<"LVDD">>,
          PmosWrapper(c) >>,
       <<WParam(c.trans_width)>>)

print_spice_regular_inverter_pmos_modeling(f, c) ==
  IF ~valid_file_stream(f) THEN ReturnFatal(f)
  ELSE Result(Write(f, RegularPmosLine(c)), CMD_EXEC_SUCCESS)

RegularNmosLine(c) ==
  Line(<< <<"Xnmos_", c.trans_name_postfix>>,
          <<c.output_port_name>>,
          <<c.input_port_name>>,
          <<"LGND">>,
          <<"LGND">>,
          NmosWrapper(c) >>,
       <<WParam(c.trans_width)>>)

print_spice_regular_inverter_nmos_modeling(f, c) ==
  IF ~valid_file_stream(f) THEN ReturnFatal(f)
  ELSE Result(Write(f, RegularNmosLine(c)), CMD_EXEC_SUCCESS)

-----------------------------------------------------------------------------
(* Width binning.  The four topology routines hold the same bin loop eight  *)
(* times (PMOS and NMOS each); it is modelled once, parameterised by the    *)
(* stage emitter it calls and by the prefix of the instance-name postfix.   *)

NumBins_Floor(total_width, regular_bin_width) == total_width \div regular_bin_width
\* int num_bins = std::ceil(total_width / regular_bin_width)
NumBins(total_width, regular_bin_width) ==
  (total_width + regular_bin_width - 1) \div regular_bin_width

\* float last_bin_width = std::fmod(total_width, regular_bin_width)
LastBinWidth(total_width, regular_bin_width) == total_width % regular_bin_width

CurrBinWidth_AlwaysRemainder(ibin, num_bins, last_bin_width, regular_bin_width) ==
  IF ibin = num_bins - 1 THEN last_bin_width ELSE regular_bin_width
\* float curr_bin_width = regular_bin_width;
\* if ((ibin == num_bins - 1) && (0. != last_bin_width)) curr_bin_width = last_bin_width;
CurrBinWidth(ibin, num_bins, last_bin_width, regular_bin_width) ==
  IF (ibin = num_bins - 1) /\ (0 # last_bin_width)
  THEN last_bin_width
  ELSE regular_bin_width

\* the call of the stage emitter in the body of a bin loop
EmitStage(kind, f, c) ==
  CASE kind = "powergated_pmos" -> print_spice_powergated_inverter_pmos_modeling(f, c)
    [] kind = "powergated_nmos" -> print_spice_powergated_inverter_nmos_modeling(f, c)
    [] kind = "regular_pmos" -> print_spice_regular_inverter_pmos_modeling(f, c)
    [] kind = "regular_nmos" -> print_spice_regular_inverter_nmos_modeling(f, c)

\* what a bin loop works with
BinStage(kind, name_prefix, input_port_name, output_port_name, port, tech_model, total_width, regular_bin_width) ==
  [kind |-> kind, name_prefix |-> name_prefix,
   input_port_name |-> input_port_name, output_port_name |-> output_port_name,
   port |-> port, tech_model |-> tech_model,
   num_bins |-> NumBins(total_width, regular_bin_width),
   last_bin_width |-> LastBinWidth(total_width, regular_bin_width),
   regular_bin_width |-> regular_bin_width]

RECURSIVE BinLoop(_, _, _)
\* for (int ibin = 0; ibin < num_bins; ++ibin) { ... if (FATAL == status) return status; }
BinLoop(f, s, ibin) ==
  IF ~(ibin < s.num_bins) THEN Result(f, CMD_EXEC_SUCCESS)
  ELSE LET curr_bin_width == CurrBinWidth(ibin, s.num_bins, s.last_bin_width,
                                          s.regular_bin_width)
           r == EmitStage(s.kind, f,
                          StageCall(s.name_prefix \o ToString(ibin),
                                    s.input_port_name, s.output_port_name,
                                    s.port, s.tech_model, curr_bin_width))
       IN IF r.status = CMD_EXEC_FATAL_ERROR THEN r ELSE BinLoop(r.fp, s, ibin + 1)

-----------------------------------------------------------------------------
(* Topology routines *)

OneScalarPort_FirstOnly(ports) == ports[1].size = 1
\* VTR_ASSERT((1 == ports.size()) && (1 == circuit_lib.port_size(ports[0])))
OneScalarPort(ports) == Len(ports) = 1 /\ ports[1].size = 1

\* total_pmos_width = size * pn_ratio * min_width(PMOS)
TotalPmosWidth(size, tech_model) ==
  size * model_pn_ratio(tech_model)
       * transistor_model_min_width(tech_model, TECH_LIB_TRANSISTOR_PMOS)

TotalNmosWidth_WithRatio(size, tech_model) ==
  size * model_pn_ratio(tech_model)
       * transistor_model_min_width(tech_model, TECH_LIB_TRANSISTOR_NMOS)
\* total_nmos_width = size * min_width(NMOS)
TotalNmosWidth(size, tech_model) ==
  size * transistor_model_min_width(tech_model, TECH_LIB_TRANSISTOR_NMOS)

\* the PMOS bin loop followed, unless it was fatal, by the NMOS bin loop
PmosThenNmos(f, pmos_stage, nmos_stage) ==
  LET p == BinLoop(f, pmos_stage, 0)
  IN IF p.status = CMD_EXEC_FATAL_ERROR THEN p ELSE BinLoop(p.fp, nmos_stage, 0)

print_spice_powergated_inverter_subckt(f, module_id, circuit_model, tech_model) ==
  IF ~valid_file_stream(f) THEN ReturnFatal(f)
  ELSE
    LET f1 == print_spice_subckt_definition(f, module_id)
        input_ports == input_ports_of(circuit_model)
        output_ports == output_ports_of(circuit_model)
        en_port == find_circuit_model_power_gate_en_port(circuit_model)
        enb_port == find_circuit_model_power_gate_enb_port(circuit_model)
    IN IF ~(/\ OneScalarPort(input_ports)
            /\ OneScalarPort(output_ports)
            /\ is_power_gated(circuit_model)
            /\ valid_circuit_port_id(en_port)
            /\ valid_circuit_port_id(enb_port))
       THEN Result(f1, ASSERT_FAILED)
       ELSE
         LET r == PmosThenNmos(f1,
                    BinStage("powergated_pmos", "",
                             input_ports[1].prefix, output_ports[1].prefix,
                             enb_port, tech_model,
                             TotalPmosWidth(buffer_size(circuit_model), tech_model),
                             transistor_model_max_width(tech_model, TECH_LIB_TRANSISTOR_PMOS)),
                    BinStage("powergated_nmos", "",
                             input_ports[1].prefix, output_ports[1].prefix,
                             en_port, tech_model,
                             TotalNmosWidth(buffer_size(circuit_model), tech_model),
                             transistor_model_max_width(tech_model, TECH_LIB_TRANSISTOR_NMOS)))
         IN IF r.status = CMD_EXEC_FATAL_ERROR THEN r
            ELSE Result(print_spice_subckt_end(r.fp, module_name(module_id)),
                        CMD_EXEC_SUCCESS)

print_spice_regular_inverter_subckt_EndsAnyway(f, module_id, circuit_model, tech_model) ==
  IF ~valid_file_stream(f) THEN ReturnFatal(f)
  ELSE
    LET f1 == print_spice_subckt_definition(f, module_id)
        input_ports == input_ports_of(circuit_model)
        output_ports == output_ports_of(circuit_model)
    IN IF ~(OneScalarPort(input_ports) /\ OneScalarPort(output_ports))
       THEN Result(f1, ASSERT_FAILED)
       ELSE
         LET r == PmosThenNmos(f1,
                    BinStage("regular_pmos", "",
                             input_ports[1].prefix, output_ports[1].prefix,
                             NoPort, tech_model,
                             TotalPmosWidth(buffer_size(circuit_model), tech_model),
                             transistor_model_max_width(tech_model, TECH_LIB_TRANSISTOR_PMOS)),
                    BinStage("regular_nmos", "",
                             input_ports[1].prefix, output_ports[1].prefix,
                             NoPort, tech_model,
                             TotalNmosWidth(buffer_size(circuit_model), tech_model),
                             transistor_model_max_width(tech_model, TECH_LIB_TRANSISTOR_NMOS)))
         IN Result(print_spice_subckt_end(r.fp, module_name(module_id)), r.status)

print_spice_regular_inverter_subckt(f, module_id, circuit_model, tech_model) ==
  IF ~valid_file_stream(f) THEN ReturnFatal(f)
  ELSE
    LET f1 == print_spice_subckt_definition(f, module_id)
        input_ports == input_ports_of(circuit_model)
        output_ports == output_ports_of(circuit_model)
    IN IF ~(OneScalarPort(input_ports) /\ OneScalarPort(output_ports))
       THEN Result(f1, ASSERT_FAILED)
       ELSE
         LET r == PmosThenNmos(f1,
                    BinStage("regular_pmos", "",
                             input_ports[1].prefix, output_ports[1].prefix,
                             NoPort, tech_model,
                             TotalPmosWidth(buffer_size(circuit_model), tech_model),
                             transistor_model_max_width(tech_model, TECH_LIB_TRANSISTOR_PMOS)),
                    BinStage("regular_nmos", "",
                             input_ports[1].prefix, output_ports[1].prefix,
                             NoPort, tech_model,
                             TotalNmosWidth(buffer_size(circuit_model), tech_model),
                             transistor_model_max_width(tech_model, TECH_LIB_TRANSISTOR_NMOS)))
         IN IF r.status = CMD_EXEC_FATAL_ERROR THEN r
            ELSE Result(print_spice_subckt_end(r.fp, module_name(module_id)), r.status)

print_spice_inverter_subckt_OncePerFile(f, module_id, circuit_model, tech_model) ==
  IF last_pass.driver # "none" THEN Result(f, CMD_EXEC_SUCCESS)
  ELSE IF is_power_gated(circuit_model)
  THEN print_spice_powergated_inverter_subckt(f, module_id, circuit_model, tech_model)
  ELSE print_spice_regular_inverter_subckt(f, module_id, circuit_model, tech_model)
print_spice_inverter_subckt_AlwaysRegular(f, module_id, circuit_model, tech_model) ==
  print_spice_regular_inverter_subckt(f, module_id, circuit_model, tech_model)
\* if (true == circuit_lib.is_power_gated(circuit_model)) ... else ...
print_spice_inverter_subckt(f, module_id, circuit_model, tech_model) ==
  IF is_power_gated(circuit_model)
  THEN print_spice_powergated_inverter_subckt(f, module_id, circuit_model, tech_model)
  ELSE print_spice_regular_inverter_subckt(f, module_id, circuit_model, tech_model)

buffer_widths_Shrinking(circuit_model, level) ==
  buffer_size(circuit_model)
    * (buffer_f_per_stage(circuit_model) ^ (buffer_num_levels(circuit_model) - 1 - level))
buffer_widths_Linear(circuit_model, level) ==
  buffer_size(circuit_model) * (1 + (buffer_f_per_stage(circuit_model) - 1) * level)
\* buffer_widths[level] = buffer_size * std::pow(buffer_f_per_stage, level)
buffer_widths(circuit_model, level) ==
  buffer_size(circuit_model) * (buffer_f_per_stage(circuit_model) ^ level)

LevelBinPrefix_BinOnly(level) == "bin"
\* std::string("level") + std::to_string(level) + "_bin" + std::to_string(ibin),
\* up to the bin index
LevelBinPrefix(level) == "level" \o ToString(level) \o "_bin"

\* the port names handed to the stage emitters of one buffer level: the calls
\* pass circuit_lib.port_prefix(input_ports[0]) and
\* circuit_lib.port_prefix(output_ports[0]); the level's local input_port_name
\* and output_port_name are computed and not used
StagePortNames(input_prefix, output_prefix, input_port_name, output_port_name) ==
  [input_port_name |-> input_prefix, output_port_name |-> output_prefix]

\* the body of the level loop of a buffer routine, for the two emitter kinds
BufferLevel(f, pmos_kind, nmos_kind, circuit_model, tech_model, level, enb_port, en_port) ==
  LET input_prefix == input_ports_of(circuit_model)[1].prefix
      output_prefix == output_ports_of(circuit_model)[1].prefix
      \* if (0 == level) output_port_name += "_level" + to_string(level);
      \* else input_port_name += "_level" + to_string(level - 1);
      output_port_name == IF 0 = level
                          THEN output_prefix \o "_level" \o ToString(level)
                          ELSE output_prefix
      input_port_name == IF 0 = level
                         THEN input_prefix
                         ELSE input_prefix \o "_level" \o ToString(level - 1)
      names == StagePortNames(input_prefix, output_prefix,
                              input_port_name, output_port_name)
  IN PmosThenNmos(f,
       BinStage(pmos_kind, LevelBinPrefix(level),
                names.input_port_name, names.output_port_name,
                enb_port, tech_model,
                TotalPmosWidth(buffer_widths(circuit_model, level), tech_model),
                transistor_model_max_width(tech_model, TECH_LIB_TRANSISTOR_PMOS)),
       BinStage(nmos_kind, LevelBinPrefix(level),
                names.input_port_name, names.output_port_name,
                en_port, tech_model,
                TotalNmosWidth(buffer_widths(circuit_model, level), tech_model),
                transistor_model_max_width(tech_model, TECH_LIB_TRANSISTOR_NMOS)))

RECURSIVE LevelLoop(_, _, _, _, _, _, _, _)
\* for (size_t level = 0; level < buffer_num_levels; ++level) { ... }
LevelLoop(f, pmos_kind, nmos_kind, circuit_model, tech_model, level, enb_port, en_port) ==
  IF ~(level < buffer_num_levels(circuit_model)) THEN Result(f, CMD_EXEC_SUCCESS)
  ELSE LET r == BufferLevel(f, pmos_kind, nmos_kind, circuit_model, tech_model,
                            level, enb_port, en_port)
       IN IF r.status = CMD_EXEC_FATAL_ERROR THEN r
          ELSE LevelLoop(r.fp, pmos_kind, nmos_kind, circuit_model, tech_model,
                         level + 1, enb_port, en_port)

print_spice_powergated_buffer_subckt(f, module_id, circuit_model, tech_model) ==
  IF ~valid_file_stream(f) THEN ReturnFatal(f)
  ELSE
    LET f1 == print_spice_subckt_definition(f, module_id)
        en_port == find_circuit_model_power_gate_en_port(circuit_model)
        enb_port == find_circuit_model_power_gate_enb_port(circuit_model)
    IN IF ~(/\ OneScalarPort(input_ports_of(circuit_model))
            /\ OneScalarPort(output_ports_of(circuit_model))
            /\ is_power_gated(circuit_model)
            /\ valid_circuit_port_id(en_port)
            /\ valid_circuit_port_id(enb_port)
            /\ 2 <= buffer_num_levels(circuit_model))
       THEN Result(f1, ASSERT_FAILED)
       ELSE
         LET r == LevelLoop(f1, "powergated_pmos", "powergated_nmos",
                            circuit_model, tech_model, 0, enb_port, en_port)
         IN IF r.status = CMD_EXEC_FATAL_ERROR THEN r
            ELSE Result(print_spice_subckt_end(r.fp, module_name(module_id)),
                        CMD_EXEC_SUCCESS)

print_spice_regular_buffer_subckt_NoEnds(f, module_id, circuit_model, tech_model) ==
  IF ~valid_file_stream(f) THEN ReturnFatal(f)
  ELSE
    LET f1 == print_spice_subckt_definition(f, module_id)
    IN IF ~(/\ OneScalarPort(input_ports_of(circuit_model))
            /\ OneScalarPort(output_ports_of(circuit_model))
            /\ 2 <= buffer_num_levels(circuit_model))
       THEN Result(f1, ASSERT_FAILED)
       ELSE LevelLoop(f1, "regular_pmos", "regular_nmos",
                      circuit_model, tech_model, 0, NoPort, NoPort)

print_spice_regular_buffer_subckt(f, module_id, circuit_model, tech_model) ==
  IF ~valid_file_stream(f) THEN ReturnFatal(f)
  ELSE
    LET f1 == print_spice_subckt_definition(f, module_id)
    IN IF ~(/\ OneScalarPort(input_ports_of(circuit_model))
            /\ OneScalarPort(output_ports_of(circuit_model))
            /\ 2 <= buffer_num_levels(circuit_model))
       THEN Result(f1, ASSERT_FAILED)
       ELSE
         LET r == LevelLoop(f1, "regular_pmos", "regular_nmos",
                            circuit_model, tech_model, 0, NoPort, NoPort)
         IN IF r.status = CMD_EXEC_FATAL_ERROR THEN r
            ELSE Result(print_spice_subckt_end(r.fp, module_name(module_id)), r.status)

print_spice_buffer_subckt(f, module_id, circuit_model, tech_model) ==
  IF is_power_gated(circuit_model)
  THEN print_spice_powergated_buffer_subckt(f, module_id, circuit_model, tech_model)
  ELSE print_spice_regular_buffer_subckt(f, module_id, circuit_model, tech_model)

-----------------------------------------------------------------------------
(* Transistor wrappers *)

\* the three lines written for one transistor type of one technology model
WrapperLines(tech_model, trans_type) ==
  << Line(<< <<".subckt">>,
             <<transistor_model_name(tech_model, trans_type), TRANSISTOR_WRAPPER_POSTFIX>>,
             <<"drain">>, <<"gate">>, <<"source">>, <<"bulk">> >>,
          << <<"L", transistor_model_chan_length(tech_model, trans_type)>>,
             <<"W", transistor_model_min_width(tech_model, trans_type)>> >>),
     Line(<< <<model_ref(tech_model), "1">>,
             <<"drain">>, <<"gate">>, <<"source">>, <<"bulk">>,
             <<transistor_model_name(tech_model, trans_type)>>,
             <<"L=L">>, <<"W=W">> >>,
          NoParams),
     Line(<< <<".ends">> >>, NoParams) >>

RECURSIVE WriteAll(_, _)
WriteAll(f, lines) ==
  IF lines = <<>> THEN f ELSE WriteAll(Write(f, Head(lines)), Tail(lines))

print_spice_transistor_model_wrapper(f, tech_model) ==
  IF ~valid_file_stream(f) THEN ReturnFatal(f)
  ELSE Result(WriteAll(WriteAll(f, WrapperLines(tech_model, TransistorTypes[1])),
                       WrapperLines(tech_model, TransistorTypes[2])),
              CMD_EXEC_SUCCESS)

\* if (CMD_EXEC_SUCCESS == print_spice_transistor_model_wrapper(...)) return CMD_EXEC_FATAL_ERROR;
WrapperFails(wrapper_status) == CMD_EXEC_SUCCESS = wrapper_status

\* netlist_manager.add_netlist(fname); set_netlist_type(id, SUBMODULE_NETLIST)
AddSubmoduleNetlist(manager, fname) ==
  Append(manager, [name |-> fname, type |-> SUBMODULE_NETLIST])

-----------------------------------------------------------------------------
(* Inputs *)

ScalarPort(prefix) == [prefix |-> prefix, size |-> 1]

\* a circuit model that satisfies the port invariants of its kind
Model(type, btype, gated, size, levels, f, en, enb, netlist) ==
  [type |-> type, buffer_type |-> btype, is_power_gated |-> gated,
   buffer_size |-> size, buffer_num_levels |-> levels, buffer_f_per_stage |-> f,
   input_ports |-> <<ScalarPort("in")>>, output_ports |-> <<ScalarPort("out")>>,
   en_size |-> en, enb_size |-> enb, circuit_netlist |-> netlist]

FPerStage == {1, 2}

Inverters ==
  {Model(CIRCUIT_MODEL_INVBUF, CIRCUIT_MODEL_BUF_INV, FALSE, size, 1, 1, 0, 0, "") :
     size \in 1..MaxSize}
  \cup
  {Model(CIRCUIT_MODEL_INVBUF, CIRCUIT_MODEL_BUF_INV, TRUE, x[1], 1, 1, x[2], x[3], "") :
     x \in (1..MaxSize) \X (1..MaxPins) \X (1..MaxPins)}

Buffers ==
  {Model(CIRCUIT_MODEL_INVBUF, CIRCUIT_MODEL_BUF_BUF, FALSE, x[1], x[2], x[3], 0, 0, "") :
     x \in (1..MaxSize) \X (2..MaxLevels) \X FPerStage}
  \cup
  {Model(CIRCUIT_MODEL_INVBUF, CIRCUIT_MODEL_BUF_BUF, TRUE, x[1], x[2], x[3], x[4], x[5], "") :
     x \in (1..MaxSize) \X (2..MaxLevels) \X FPerStage \X (1..MaxPins) \X (1..MaxPins)}

\* models that break a structural precondition of their topology routine
BrokenModels ==
  LET inv == Model(CIRCUIT_MODEL_INVBUF, CIRCUIT_MODEL_BUF_INV, FALSE, 1, 1, 1, 0, 0, "")
      pginv == Model(CIRCUIT_MODEL_INVBUF, CIRCUIT_MODEL_BUF_INV, TRUE, 1, 1, 1, 1, 1, "")
      buf == Model(CIRCUIT_MODEL_INVBUF, CIRCUIT_MODEL_BUF_BUF, FALSE, 1, 2, 1, 0, 0, "")
      pgbuf == Model(CIRCUIT_MODEL_INVBUF, CIRCUIT_MODEL_BUF_BUF, TRUE, 1, 2, 1, 1, 1, "")
  IN {[m EXCEPT !.input_ports = <<ScalarPort("in"), ScalarPort("in2")>>] :
        m \in {inv, pginv, buf, pgbuf}}
     \cup {[m EXCEPT !.output_ports = <<[prefix |-> "out", size |-> 2]>>] :
             m \in {inv, pginv, buf, pgbuf}}
     \cup {[m EXCEPT !.en_size = 0] : m \in {pginv, pgbuf}}
     \cup {[m EXCEPT !.enb_size = 0] : m \in {pginv, pgbuf}}
     \cup {[m EXCEPT !.buffer_num_levels = 1] : m \in {buf, pgbuf}}

\* the models a library of several models is drawn from
CoarseModels ==
  {Model(type, CIRCUIT_MODEL_BUF_INV, FALSE, 1, 1, 1, 0, 0, netlist) :
     type \in {CIRCUIT_MODEL_INVBUF, CIRCUIT_MODEL_PASSGATE,
               CIRCUIT_MODEL_GATE, CIRCUIT_MODEL_LUT},
     netlist \in {"", "extern.sp"}}

TransistorModels ==
  [type : {TECH_LIB_MODEL_TRANSISTOR}, ref : {"M"}, pn_ratio : {1, 2},
   pmos : {[name |-> "pch", chan_length |-> 1, min_width |-> 1, max_width |-> 2],
           [name |-> "pch", chan_length |-> 1, min_width |-> 2, max_width |-> 3]},
   nmos : {[name |-> "nch", chan_length |-> 1, min_width |-> 1, max_width |-> 2],
           [name |-> "nch", chan_length |-> 1, min_width |-> 1, max_width |-> 3]}]

RramModel ==
  [type |-> TECH_LIB_MODEL_RRAM, ref |-> "R", pn_ratio |-> 1,
   pmos |-> [name |-> "", chan_length |-> 0, min_width |-> 0, max_width |-> 0],
   nmos |-> [name |-> "", chan_length |-> 0, min_width |-> 0, max_width |-> 0]]

BasicTransistorModel ==
  [type |-> TECH_LIB_MODEL_TRANSISTOR, ref |-> "M", pn_ratio |-> 2,
   pmos |-> [name |-> "pch", chan_length |-> 1, min_width |-> 1, max_width |-> 2],
   nmos |-> [name |-> "nch", chan_length |-> 1, min_width |-> 1, max_width |-> 2]]

SeqsUpTo(S, n) == UNION {[1..k -> S] : k \in 0..n}

\* one inverter or buffer with its technology
InitOneModel ==
  /\ circuit_lib \in {<<m>> : m \in Inverters \cup Buffers \cup BrokenModels}
  /\ tech_lib \in {<<t>> : t \in TransistorModels}
  /\ circuit_tech_binding = <<1>>

\* a library of several circuit models, bound or not
InitLibrary ==
  /\ circuit_lib \in SeqsUpTo(CoarseModels, MaxModels)
  /\ tech_lib \in {<<BasicTransistorModel>>, <<RramModel>>}
  /\ circuit_tech_binding \in [1..Len(circuit_lib) -> 0..1]

\* a technology library of several models
InitTechLibrary ==
  /\ circuit_lib = <<>>
  /\ tech_lib \in SeqsUpTo({BasicTransistorModel, RramModel}, MaxTechModels)
  /\ circuit_tech_binding = <<>>

\* no driver has been called: no stream, and no earlier run
-----------------------------------------------------------------------------
(* The physical pb: atom nets of pb_graph pins *)

Pbs == 1..MaxPbs
PbPins == 1..MaxPbPins
\* AtomNetId::INVALID()
INVALID_ATOM_NET == 0
AtomNets == 1..MaxNets
\* device_annotation.physical_pb_graph_pin() found no pin: nullptr
NoPhysicalPin == 0

\* a physical pb after alloc_physical_pb_from_pb_graph: no pin has a net
EmptyPhysicalPb == [k \in Pbs \X PbPins |-> INVALID_ATOM_NET]

\* PhysicalPb::pb_graph_pin_atom_net
pb_graph_pin_atom_net(phy, pb, pb_graph_pin) == phy[<<pb, pb_graph_pin>>]

\* PhysicalPb::set_pb_graph_pin_atom_net
set_pb_graph_pin_atom_net(phy, pb, pb_graph_pin, atom_net) ==
  [phy EXCEPT ![<<pb, pb_graph_pin>>] = atom_net]

\* what pb_route holds for the node index of a pin: no entry, or an entry
\* with its atom_net_id
PbRouteEntries ==
  {[count |-> 0, atom_net_id |-> INVALID_ATOM_NET]}
    \cup {[count |-> 1, atom_net_id |-> n] : n \in {INVALID_ATOM_NET} \cup AtomNets}

Updated(phy, aborted) == [phy_pb |-> phy, aborted |-> aborted]

\* an update that stores the net whatever the pin carries
update_primitive_physical_pb_pin_atom_net_Overwrite(phy, primitive_pb, route, physical_pb_graph_pin) ==
  IF route.count = 0 THEN Updated(phy, FALSE)
  ELSE IF route.atom_net_id = INVALID_ATOM_NET THEN Updated(phy, TRUE)
  ELSE IF physical_pb_graph_pin = NoPhysicalPin THEN Updated(phy, TRUE)
  ELSE Updated(set_pb_graph_pin_atom_net(phy, primitive_pb, physical_pb_graph_pin,
                                         route.atom_net_id), FALSE)

\* update_primitive_physical_pb_pin_atom_net: `route` is what pb_route holds
\* for pb_graph_pin->pin_count_in_cluster, physical_pb_graph_pin what the
\* device annotation gives for the pin; a failed VTR_ASSERT aborts
update_primitive_physical_pb_pin_atom_net(phy, primitive_pb, route, physical_pb_graph_pin) ==
  IF route.count = 0 THEN Updated(phy, FALSE)
  ELSE IF route.atom_net_id = INVALID_ATOM_NET THEN Updated(phy, TRUE)
  ELSE IF physical_pb_graph_pin = NoPhysicalPin THEN Updated(phy, TRUE)
  ELSE IF INVALID_ATOM_NET = pb_graph_pin_atom_net(phy, primitive_pb, physical_pb_graph_pin)
  THEN Updated(set_pb_graph_pin_atom_net(phy, primitive_pb, physical_pb_graph_pin,
                                         route.atom_net_id), FALSE)
  ELSE Updated(phy, route.atom_net_id
                      # pb_graph_pin_atom_net(phy, primitive_pb, physical_pb_graph_pin))

\* no update was called yet
NoCall == [primitive_pb |-> 0, route |-> [count |-> 0, atom_net_id |-> INVALID_ATOM_NET],
           physical_pb_graph_pin |-> NoPhysicalPin, carried |-> INVALID_ATOM_NET]

NoStream == [OpenedStream EXCEPT !.is_open = FALSE]
NoPass == [driver |-> "none", lines |-> <<>>, good |-> TRUE,
           status |-> CMD_EXEC_SUCCESS]

Init ==
  /\ \/ InitOneModel
     \/ InitLibrary
     \/ InitTechLibrary
  /\ fp = NoStream
  /\ netlist_manager = <<>>
  /\ pc = "idle"
  /\ imodel = 0
  /\ status = CMD_EXEC_SUCCESS
  /\ visited = <<>>
  /\ driver = "none"
  /\ last_pass = NoPass
  /\ phy_pb = EmptyPhysicalPb
  /\ last_call = NoCall

\* the failures the device may produce during one call
Failures == {<<FALSE, 0>>} \cup {<<TRUE, n>> : n \in 0..MaxFail}

-----------------------------------------------------------------------------
(* print_spice_transistor_wrapper *)

\* fp.open; check_file_stream; print_spice_file_header
CallTransistorWrapper ==
  /\ pc = "idle"
  /\ \E x \in Failures :
       fp' = Settle(print_spice_file_header(Arm(OpenedStream, x[1], x[2]),
                                            "Transistor wrappers"))
  /\ pc' = "wrapper_loop"
  /\ driver' = "print_spice_transistor_wrapper"
  /\ imodel' = 1
  /\ UNCHANGED <<circuit_lib, tech_lib, circuit_tech_binding, netlist_manager,
                 status, visited, last_pass, phy_pb, last_call>>

\* loop body, a model that is no transistor model: continue
WrapperSkipModel ==
  /\ pc = "wrapper_loop"
  /\ imodel <= Len(tech_lib)
  /\ TECH_LIB_MODEL_TRANSISTOR # model_type(imodel)
  /\ imodel' = imodel + 1
  /\ visited' = Append(visited, imodel)
  /\ UNCHANGED <<circuit_lib, tech_lib, circuit_tech_binding, fp, netlist_manager,
                 pc, status>>
  /\ UNCHANGED <<driver, last_pass, phy_pb, last_call>>

\* loop body, a transistor model: write its wrappers, return on WrapperFails
WrapperWriteModel ==
  /\ pc = "wrapper_loop"
  /\ imodel <= Len(tech_lib)
  /\ TECH_LIB_MODEL_TRANSISTOR = model_type(imodel)
  /\ visited' = Append(visited, imodel)
  /\ \E x \in Failures :
       LET r == print_spice_transistor_model_wrapper(Arm(fp, x[1], x[2]), imodel)
       IN IF WrapperFails(r.status)
          THEN /\ fp' = Destroy(Settle(r.fp))
               /\ status' = CMD_EXEC_FATAL_ERROR
               /\ pc' = "returned"
               /\ imodel' = imodel
          ELSE /\ fp' = Settle(r.fp)
               /\ imodel' = imodel + 1
               /\ UNCHANGED <<status, pc>>
  /\ UNCHANGED <<circuit_lib, tech_lib, circuit_tech_binding, netlist_manager>>
  /\ UNCHANGED <<driver, last_pass, phy_pb, last_call>>

\* after the loop: fp.close(); add_netlist; set_netlist_type; return SUCCESS
WrapperFinish ==
  /\ pc = "wrapper_loop"
  /\ imodel > Len(tech_lib)
  /\ fp' = Destroy(Close(fp))
  /\ netlist_manager' = AddSubmoduleNetlist(netlist_manager, TRANSISTORS_SPICE_FILE_NAME)
  /\ status' = CMD_EXEC_SUCCESS
  /\ pc' = "returned"
  /\ UNCHANGED <<circuit_lib, tech_lib, circuit_tech_binding, imodel, visited>>
  /\ UNCHANGED <<driver, last_pass, phy_pb, last_call>>

-----------------------------------------------------------------------------
(* print_spice_essential_gates *)

\* fp.open; check_file_stream; print_spice_file_header; status = SUCCESS
CallEssentialGates ==
  /\ pc = "idle"
  /\ \E x \in Failures :
       fp' = Settle(print_spice_file_header(Arm(OpenedStream, x[1], x[2]),
                                            "Essential gates"))
  /\ pc' = "gates_loop"
  /\ driver' = "print_spice_essential_gates"
  /\ imodel' = 1
  /\ status' = CMD_EXEC_SUCCESS
  /\ UNCHANGED <<circuit_lib, tech_lib, circuit_tech_binding, netlist_manager,
                 visited, last_pass, phy_pb, last_call>>

InLoop == pc = "gates_loop" /\ imodel <= Len(circuit_lib)

NeedsBinding_EveryType(circuit_model) == TRUE
NeedsBinding_InvbufOnly(circuit_model) ==
  CIRCUIT_MODEL_INVBUF = circuit_model_type(circuit_model)
\* the model types the driver looks up in circuit_tech_binding
NeedsBinding(circuit_model) ==
  \/ CIRCUIT_MODEL_INVBUF = circuit_model_type(circuit_model)
  \/ CIRCUIT_MODEL_PASSGATE = circuit_model_type(circuit_model)
  \/ CIRCUIT_MODEL_GATE = circuit_model_type(circuit_model)

\* result == circuit_tech_binding.end()
NoBinding(circuit_model) == circuit_tech_binding[circuit_model] = 0

\* the two VTR_ASSERTs on the bound technology model
BindingAsserts(circuit_model) ==
  /\ valid_model_id(circuit_tech_binding[circuit_model])
  /\ TECH_LIB_MODEL_TRANSISTOR = model_type(circuit_tech_binding[circuit_model])

BypassModel_AfterBinding ==
  /\ InLoop
  /\ model_circuit_netlist(imodel) # ""
  /\ visited' = Append(visited, imodel)
  /\ IF NeedsBinding(imodel) /\ NoBinding(imodel)
     THEN /\ status' = CMD_EXEC_FATAL_ERROR
          /\ fp' = Destroy(fp)
          /\ pc' = "returned"
          /\ imodel' = imodel
     ELSE /\ imodel' = imodel + 1
          /\ UNCHANGED <<fp, pc, status>>
  /\ UNCHANGED <<circuit_lib, tech_lib, circuit_tech_binding, netlist_manager>>
  /\ UNCHANGED <<driver, last_pass, phy_pb, last_call>>

\* if (!circuit_lib.model_circuit_netlist(circuit_model).empty()) continue;
BypassModel ==
  /\ InLoop
  /\ model_circuit_netlist(imodel) # ""
  /\ imodel' = imodel + 1
  /\ visited' = Append(visited, imodel)
  /\ UNCHANGED <<circuit_lib, tech_lib, circuit_tech_binding, fp, netlist_manager,
                 pc, status>>
  /\ UNCHANGED <<driver, last_pass, phy_pb, last_call>>

\* no entry in circuit_tech_binding: VTR_LOGF_ERROR; return CMD_EXEC_FATAL_ERROR
MissingBinding ==
  /\ InLoop
  /\ model_circuit_netlist(imodel) = ""
  /\ NeedsBinding(imodel)
  /\ NoBinding(imodel)
  /\ visited' = Append(visited, imodel)
  /\ status' = CMD_EXEC_FATAL_ERROR
  /\ fp' = Destroy(fp)
  /\ pc' = "returned"
  /\ UNCHANGED <<circuit_lib, tech_lib, circuit_tech_binding, netlist_manager, imodel>>
  /\ UNCHANGED <<driver, last_pass, phy_pb, last_call>>

\* a binding to something that is no transistor model: VTR_ASSERT fails
BadBinding ==
  /\ InLoop
  /\ model_circuit_netlist(imodel) = ""
  /\ NeedsBinding(imodel)
  /\ ~NoBinding(imodel)
  /\ ~BindingAsserts(imodel)
  /\ visited' = Append(visited, imodel)
  /\ pc' = "aborted"
  /\ UNCHANGED <<circuit_lib, tech_lib, circuit_tech_binding, fp, netlist_manager,
                 imodel, status>>
  /\ UNCHANGED <<driver, last_pass, phy_pb, last_call>>

\* a model that is no inverter or buffer, given a subcircuit header all the same
OtherModel_WritesHeader ==
  /\ InLoop
  /\ model_circuit_netlist(imodel) = ""
  /\ NeedsBinding(imodel) => (~NoBinding(imodel) /\ BindingAsserts(imodel))
  /\ CIRCUIT_MODEL_INVBUF # circuit_model_type(imodel)
  /\ imodel' = imodel + 1
  /\ visited' = Append(visited, imodel)
  /\ fp' = print_spice_subckt_definition(fp, imodel)
  /\ UNCHANGED <<circuit_lib, tech_lib, circuit_tech_binding, netlist_manager,
                 pc, status>>
  /\ UNCHANGED <<driver, last_pass, phy_pb, last_call>>

\* a model that is no inverter or buffer: nothing is written
OtherModel ==
  /\ InLoop
  /\ model_circuit_netlist(imodel) = ""
  /\ NeedsBinding(imodel) => (~NoBinding(imodel) /\ BindingAsserts(imodel))
  /\ CIRCUIT_MODEL_INVBUF # circuit_model_type(imodel)
  /\ imodel' = imodel + 1
  /\ visited' = Append(visited, imodel)
  /\ UNCHANGED <<circuit_lib, tech_lib, circuit_tech_binding, fp, netlist_manager,
                 pc, status>>
  /\ UNCHANGED <<driver, last_pass, phy_pb, last_call>>

\* if (CIRCUIT_MODEL_BUF_INV == buffer_type) print_spice_inverter_subckt
\* else { VTR_ASSERT(CIRCUIT_MODEL_BUF_BUF == buffer_type); print_spice_buffer_subckt }
InvBufSubckt(f, circuit_model, tech_model) ==
  IF CIRCUIT_MODEL_BUF_INV = buffer_type(circuit_model)
  THEN print_spice_inverter_subckt(f, circuit_model, circuit_model, tech_model)
  ELSE IF CIRCUIT_MODEL_BUF_BUF = buffer_type(circuit_model)
  THEN print_spice_buffer_subckt(f, circuit_model, circuit_model, tech_model)
  ELSE Result(f, ASSERT_FAILED)

\* an inverter or buffer: write its subcircuit; break on a fatal status
InvBufModel ==
  /\ InLoop
  /\ model_circuit_netlist(imodel) = ""
  /\ ~NoBinding(imodel) /\ BindingAsserts(imodel)
  /\ CIRCUIT_MODEL_INVBUF = circuit_model_type(imodel)
  /\ visited' = Append(visited, imodel)
  /\ \E x \in Failures :
       LET r == InvBufSubckt(Arm(fp, x[1], x[2]), imodel, circuit_tech_binding[imodel])
       IN /\ fp' = Settle(r.fp)
          /\ IF r.status = ASSERT_FAILED
             THEN pc' = "aborted" /\ UNCHANGED <<status, imodel>>
             ELSE /\ status' = r.status
                  /\ IF CMD_EXEC_FATAL_ERROR = r.status
                     THEN pc' = "gates_break" /\ imodel' = imodel
                     ELSE pc' = pc /\ imodel' = imodel + 1
  /\ UNCHANGED <<circuit_lib, tech_lib, circuit_tech_binding, netlist_manager>>
  /\ UNCHANGED <<driver, last_pass, phy_pb, last_call>>

\* after the loop, or after break: fp.close()
GatesClose ==
  /\ \/ pc = "gates_loop" /\ imodel > Len(circuit_lib)
     \/ pc = "gates_break"
  /\ fp' = Close(fp)
  /\ pc' = "gates_closed"
  /\ UNCHANGED <<circuit_lib, tech_lib, circuit_tech_binding, netlist_manager,
                 imodel, status, visited>>
  /\ UNCHANGED <<driver, last_pass, phy_pb, last_call>>

\* a driver that registers the file of a successful pass only
GatesFinish_SuccessOnly ==
  /\ pc = "gates_closed"
  /\ netlist_manager' = IF status = CMD_EXEC_SUCCESS
                        THEN AddSubmoduleNetlist(netlist_manager, ESSENTIALS_SPICE_FILE_NAME)
                        ELSE netlist_manager
  /\ fp' = Destroy(fp)
  /\ pc' = "returned"
  /\ UNCHANGED <<circuit_lib, tech_lib, circuit_tech_binding, imodel, status, visited>>
  /\ UNCHANGED <<driver, last_pass, phy_pb, last_call>>

\* add_netlist; set_netlist_type; return status
GatesFinish ==
  /\ pc = "gates_closed"
  /\ netlist_manager' = AddSubmoduleNetlist(netlist_manager, ESSENTIALS_SPICE_FILE_NAME)
  /\ fp' = Destroy(fp)
  /\ pc' = "returned"
  /\ UNCHANGED <<circuit_lib, tech_lib, circuit_tech_binding, imodel, status, visited>>
  /\ UNCHANGED <<driver, last_pass, phy_pb, last_call>>

-----------------------------------------------------------------------------
(* A further run *)

\* the tool is run again on the same libraries and binding, with a new
\* netlist manager; the text the finished run wrote stays on disk
NextPass ==
  /\ pc = "returned"
  /\ last_pass' = [driver |-> driver, lines |-> fp.lines, good |-> fp.good,
                   status |-> status]
  /\ fp' = NoStream
  /\ netlist_manager' = <<>>
  /\ pc' = "idle"
  /\ imodel' = 0
  /\ status' = CMD_EXEC_SUCCESS
  /\ visited' = <<>>
  /\ driver' = "none"
  /\ UNCHANGED <<circuit_lib, tech_lib, circuit_tech_binding, phy_pb, last_call>>

Next ==
  \/ CallTransistorWrapper
  \/ WrapperSkipModel
  \/ WrapperWriteModel
  \/ WrapperFinish
  \/ CallEssentialGates
  \/ BypassModel
  \/ MissingBinding
  \/ BadBinding
  \/ OtherModel
  \/ InvBufModel
  \/ GatesClose
  \/ GatesFinish

Spec == Init /\ [][Next]_vars

\* print_spice_essential_gates, run any number of times on the same inputs
InitPasses ==
  /\ Init
  /\ \/ Len(circuit_lib) > 1
     \/ /\ Len(circuit_lib) = 1
        /\ circuit_lib[1] \in Buffers
        /\ circuit_lib[1].is_power_gated
        /\ tech_lib = <<BasicTransistorModel>>

NextPasses ==
  \/ CallEssentialGates
  \/ BypassModel
  \/ MissingBinding
  \/ BadBinding
  \/ OtherModel
  \/ InvBufModel
  \/ GatesClose
  \/ GatesFinish
  \/ NextPass

SpecPasses == InitPasses /\ [][NextPasses]_vars

-----------------------------------------------------------------------------
(* Synchronizing atom nets to the physical pb *)

\* the physical pb was allocated; no driver of the netlist writers runs
InitPb ==
  /\ circuit_lib = <<>>
  /\ tech_lib = <<>>
  /\ circuit_tech_binding = <<>>
  /\ fp = NoStream
  /\ netlist_manager = <<>>
  /\ pc = "synchronizing"
  /\ imodel = 0
  /\ status = CMD_EXEC_SUCCESS
  /\ visited = <<>>
  /\ driver = "synchronize_primitive_physical_pb_atom_nets"
  /\ last_pass = NoPass
  /\ phy_pb = EmptyPhysicalPb
  /\ last_call = NoCall

\* one call of update_primitive_physical_pb_pin_atom_net from the pin loops
CallUpdate ==
  /\ pc = "synchronizing"
  /\ \E primitive_pb \in Pbs, route \in PbRouteEntries,
        physical_pb_graph_pin \in {NoPhysicalPin} \cup PbPins :
       LET r == update_primitive_physical_pb_pin_atom_net(phy_pb, primitive_pb, route,
                                                          physical_pb_graph_pin)
       IN /\ phy_pb' = r.phy_pb
          /\ pc' = IF r.aborted THEN "aborted" ELSE pc
          /\ last_call' = [primitive_pb |-> primitive_pb, route |-> route,
                           physical_pb_graph_pin |-> physical_pb_graph_pin,
                           carried |-> IF physical_pb_graph_pin = NoPhysicalPin
                                       THEN INVALID_ATOM_NET
                                       ELSE pb_graph_pin_atom_net(phy_pb, primitive_pb,
                                                                  physical_pb_graph_pin)]
  /\ UNCHANGED <<circuit_lib, tech_lib, circuit_tech_binding, fp, netlist_manager,
                 imodel, status, visited, driver, last_pass>>

NextPb ==
  \/ CallUpdate

SpecPb == InitPb /\ [][NextPb]_vars

-----------------------------------------------------------------------------
(* Reading the netlist that was written *)

Out == fp.lines

FieldText(l, k) == IF k <= Len(l.fields) THEN Text(l.fields[k]) ELSE ""
InstName(l) == l.fields[1]
Drain(l) == FieldText(l, 2)
Gate(l) == FieldText(l, 3)
Source(l) == FieldText(l, 4)
Bulk(l) == FieldText(l, 5)
Width(l) == l.params[1][2]

IsCore(l, polarity) ==
  Len(InstName(l)) = 2 /\ InstName(l)[1] = "X" \o polarity \o "_"
IsChain(l, polarity) ==
  Len(InstName(l)) = 4 /\ InstName(l)[1] = "X" \o polarity \o "_powergate_"
IsDevice(l) == \E polarity \in {"pmos", "nmos"} : IsCore(l, polarity) \/ IsChain(l, polarity)
\* the postfix that names the stage call a device line was written by
Postfix(l) == InstName(l)[2]

Rail(polarity) == IF polarity = "pmos" THEN "LVDD" ELSE "LGND"

IsHeaderOf(l, m) ==
  Len(l.fields) = 2 /\ Text(l.fields[1]) = ".subckt" /\ Text(l.fields[2]) = model_name(m)
IsEnds(l) == Len(l.fields) = 1 /\ Text(l.fields[1]) = ".ends"

\* model m has a finished subcircuit in the output: its header was written
\* and the stream took every line up to the state at hand
HasFrame(m) ==
  /\ driver = "print_spice_essential_gates"
  /\ fp.good
  /\ pc # "aborted"
  /\ \E i \in 1..Len(Out) : IsHeaderOf(Out[i], m)

FrameStart(m) == CHOOSE i \in 1..Len(Out) : IsHeaderOf(Out[i], m)
FrameEnd(m) ==
  CHOOSE j \in (FrameStart(m) + 1)..Len(Out) :
    /\ IsEnds(Out[j])
    /\ \A k \in (FrameStart(m) + 1)..(j - 1) : ~IsEnds(Out[k])
\* the lines between the header and the footer of model m
Body(m) == SubSeq(Out, FrameStart(m) + 1, FrameEnd(m) - 1)

Frames == {m \in 1..Len(circuit_lib) : HasFrame(m)}

IsBuffer(m) == circuit_lib[m].buffer_type = CIRCUIT_MODEL_BUF_BUF
\* the stages of model m: level 0 alone for an inverter
Levels(m) == IF IsBuffer(m) THEN 0..(circuit_lib[m].buffer_num_levels - 1) ELSE {0}

\* the instance-name postfix of bin b of level lv of model m
BinPostfix(m, lv, b) ==
  IF IsBuffer(m) THEN "level" \o ToString(lv) \o "_bin" \o ToString(b) ELSE ToString(b)

IsCoreOfLevel(l, m, polarity, lv) ==
  /\ IsCore(l, polarity)
  /\ \E b \in 0..Len(Out) : Postfix(l) = BinPostfix(m, lv, b)

\* the core devices of one polarity of one level of model m, as written
CoreLines(m, polarity, lv) ==
  LET body == Body(m)
      RECURSIVE Pick(_)
      Pick(i) == IF i > Len(body) THEN <<>>
                 ELSE IF IsCoreOfLevel(body[i], m, polarity, lv)
                      THEN <<body[i]>> \o Pick(i + 1)
                      ELSE Pick(i + 1)
  IN Pick(1)

RECURSIVE SumWidths(_)
SumWidths(ls) == IF ls = <<>> THEN 0 ELSE Width(Head(ls)) + SumWidths(Tail(ls))

TechOf(m) == tech_lib[circuit_tech_binding[m]]

\* the width a stage needs: size * f^level * min_width, times pn_ratio for PMOS
TotalWidth(m, polarity, lv) ==
  LET stage_size == circuit_lib[m].buffer_size * (circuit_lib[m].buffer_f_per_stage ^ lv)
  IN IF polarity = "pmos"
     THEN stage_size * TechOf(m).pn_ratio * TechOf(m).pmos.min_width
     ELSE stage_size * TechOf(m).nmos.min_width

MaxWidth(m, polarity) ==
  IF polarity = "pmos" THEN TechOf(m).pmos.max_width ELSE TechOf(m).nmos.max_width

Polarities == {"pmos", "nmos"}

-----------------------------------------------------------------------------
(* C1: width binning completeness.  In every finished subcircuit, for each *)
(* level and polarity, the widths of the core devices sum to the total     *)
(* width of the stage, each is at most max_width, and every one before the *)
(* last equals max_width.                                                  *)

BinsComplete(m, polarity, lv) ==
  LET bins == CoreLines(m, polarity, lv)
  IN /\ SumWidths(bins) = TotalWidth(m, polarity, lv)
     /\ \A i \in 1..Len(bins) : Width(bins[i]) <= MaxWidth(m, polarity)
     /\ \A i \in 1..(Len(bins) - 1) : Width(bins[i]) = MaxWidth(m, polarity)

BinningCompleteness ==
  \A m \in Frames : \A polarity \in Polarities : \A lv \in Levels(m) :
    BinsComplete(m, polarity, lv)

\* a stage binned as [max, max, remainder] with 0 < remainder < max
BinningCompletenessWitness ==
  \E m \in Frames : \E polarity \in Polarities : \E lv \in Levels(m) :
    LET bins == CoreLines(m, polarity, lv)
    IN /\ Len(bins) = 3
       /\ Width(bins[1]) = MaxWidth(m, polarity)
       /\ Width(bins[3]) < MaxWidth(m, polarity)
       /\ Width(bins[3]) > 0
       /\ circuit_lib[m].is_power_gated
       /\ IsBuffer(m)

-----------------------------------------------------------------------------
(* C2: exact multiples.  When the total width of a stage is k * max_width, *)
(* the stage has exactly k core devices, each of width max_width; and no   *)
(* device of width zero is ever written.                                   *)

ExactMultipleBins ==
  /\ \A m \in Frames : \A polarity \in Polarities : \A lv \in Levels(m) :
       LET bins == CoreLines(m, polarity, lv)
           total == TotalWidth(m, polarity, lv)
           max == MaxWidth(m, polarity)
       IN total % max = 0 =>
            /\ Len(bins) = total \div max
            /\ \A i \in 1..Len(bins) : Width(bins[i]) = max
  /\ \A i \in 1..Len(Out) : IsDevice(Out[i]) => Width(Out[i]) > 0

\* a stage of total width 2 * max_width, written as two bins
ExactMultipleBinsWitness ==
  \E m \in Frames : \E polarity \in Polarities : \E lv \in Levels(m) :
    /\ TotalWidth(m, polarity, lv) = 2 * MaxWidth(m, polarity)
    /\ Len(CoreLines(m, polarity, lv)) = 2

-----------------------------------------------------------------------------
(* Power-gated stages, as written *)

GatedFrames == {m \in Frames : circuit_lib[m].is_power_gated}

\* the pins of the port that gates one polarity: ENb for PMOS, EN for NMOS
NumPins(m, polarity) ==
  IF polarity = "pmos" THEN circuit_lib[m].enb_size ELSE circuit_lib[m].en_size

PinOf(l) == InstName(l)[4]

\* the intermediate node of pin number n in the chain that gates net `out`
ChainNode(out, polarity, n) == out \o "_" \o polarity \o "_pg_" \o ToString(n)

\* body[i] is the core device of a stage call: the k lines before it are the
\* chain switches of pins 0..k-1 of the same call, and no further switch
\* precedes them
CoreClosesChain(body, i, polarity, k) ==
  /\ i > k
  /\ \A n \in 0..(k - 1) :
       LET l == body[i - k + n]
       IN /\ IsChain(l, polarity)
          /\ Postfix(l) = Postfix(body[i])
          /\ PinOf(l) = ToString(n)
  /\ (i - k > 1) => ~IsChain(body[i - k - 1], polarity)

\* body[i] is a chain switch: the core device of its call follows the switch
\* of the last pin
ChainReachesCore(body, i, polarity, k) ==
  \E n \in 0..(k - 1) :
    /\ PinOf(body[i]) = ToString(n)
    /\ i + (k - n) <= Len(body)
    /\ IsCore(body[i + (k - n)], polarity)
    /\ Postfix(body[i + (k - n)]) = Postfix(body[i])

\* the core device of the stage call that wrote chain switch body[i]
CoreOfChain(body, i, polarity) ==
  body[CHOOSE j \in i..Len(body) :
         /\ IsCore(body[j], polarity)
         /\ \A h \in i..(j - 1) : ~IsCore(body[h], polarity)]

-----------------------------------------------------------------------------
(* C3: in a power-gated stage the source of the core device, PMOS and NMOS *)
(* alike, is the intermediate node of the chain switch of the last pin of  *)
(* the enable-bar / enable port.                                           *)

CoreSourceIsLastNode(body, i, polarity, k) ==
  /\ Source(body[i]) = ChainNode(Drain(body[i]), polarity, k - 1)
  /\ i > 1
  /\ Source(body[i]) \in {Drain(body[i - 1]), Source(body[i - 1])}

CoreInSeriesWithChain ==
  \A m \in GatedFrames : \A polarity \in Polarities :
    \A i \in 1..Len(Body(m)) :
      IsCore(Body(m)[i], polarity) =>
        CoreSourceIsLastNode(Body(m), i, polarity, NumPins(m, polarity))

-----------------------------------------------------------------------------
(* C4: buffer stitching.  The devices of level 0 of a buffer have the      *)
(* port's input net as gate and <output>_level0 as drain, the devices of   *)
(* level k > 0 have the output net of level k-1 as gate, and the devices   *)
(* of the last level have the port's output net as drain.                  *)

LevelsStitched(m) ==
  LET input == circuit_lib[m].input_ports[1].prefix
      output == circuit_lib[m].output_ports[1].prefix
      last == circuit_lib[m].buffer_num_levels - 1
      cores(lv) == CoreLines(m, "pmos", lv) \o CoreLines(m, "nmos", lv)
  IN /\ \A i \in 1..Len(cores(0)) :
          /\ Gate(cores(0)[i]) = input
          /\ Drain(cores(0)[i]) = output \o "_level0"
     /\ \A lv \in 1..last :
          \A i \in 1..Len(cores(lv)) : \A j \in 1..Len(cores(lv - 1)) :
            Gate(cores(lv)[i]) = Drain(cores(lv - 1)[j])
     /\ \A i \in 1..Len(cores(last)) : Drain(cores(last)[i]) = output

BufferStitching ==
  \A m \in Frames : IsBuffer(m) => LevelsStitched(m)

-----------------------------------------------------------------------------
(* C9: chain length.  Every call of a power-gated stage emitter writes one *)
(* chain switch per pin of the gating port, in pin order, and then exactly *)
(* one core device.                                                        *)

ChainLength ==
  \A m \in GatedFrames : \A polarity \in Polarities :
    \A i \in 1..Len(Body(m)) :
      /\ IsCore(Body(m)[i], polarity) =>
           CoreClosesChain(Body(m), i, polarity, NumPins(m, polarity))
      /\ IsChain(Body(m)[i], polarity) =>
           ChainReachesCore(Body(m), i, polarity, NumPins(m, polarity))

\* a gated buffer with two enable-bar pins and one enable pin, several bins
ChainLengthWitness ==
  \E m \in GatedFrames :
    /\ IsBuffer(m)
    /\ NumPins(m, "pmos") = 2
    /\ NumPins(m, "nmos") = 1
    /\ Len(CoreLines(m, "pmos", 1)) >= 2
    /\ \E i \in 1..Len(Body(m)) : IsChain(Body(m)[i], "pmos") /\ PinOf(Body(m)[i]) = "1"

-----------------------------------------------------------------------------
(* C10: chain rule.  The switch of the first pin has source and bulk on    *)
(* the rail and its drain on the node of pin 0; the switch of a later pin  *)
(* i lies between the node of pin i-1 and the node of pin i, bulk on the   *)
(* rail.                                                                   *)

SwitchInSeries(body, i, polarity) ==
  LET l == body[i]
      out == Drain(CoreOfChain(body, i, polarity))
  IN /\ Bulk(l) = Rail(polarity)
     /\ PinOf(l) = "0" =>
          /\ Source(l) = Rail(polarity)
          /\ Drain(l) = ChainNode(out, polarity, 0)
     /\ \A n \in 1..Len(body) :
          PinOf(l) = ToString(n) =>
            /\ ChainNode(out, polarity, n - 1) \in {Drain(l), Source(l)}
            /\ ChainNode(out, polarity, n) \in {Drain(l), Source(l)}

ChainRule ==
  \A m \in GatedFrames : \A polarity \in Polarities :
    \A i \in 1..Len(Body(m)) :
      IsChain(Body(m)[i], polarity) => SwitchInSeries(Body(m), i, polarity)

\* a gated inverter whose PMOS and NMOS chains both have a second switch
ChainRuleWitness ==
  \E m \in GatedFrames :
    /\ ~IsBuffer(m)
    /\ \A polarity \in Polarities :
         \E i \in 1..Len(Body(m)) :
           IsChain(Body(m)[i], polarity) /\ PinOf(Body(m)[i]) = "1"

-----------------------------------------------------------------------------
(* The transistor-wrapper pass, as written *)

WrapperPassReturned ==
  driver = "print_spice_transistor_wrapper" /\ pc = "returned"

TransistorIds ==
  {t \in 1..Len(tech_lib) : tech_lib[t].type = TECH_LIB_MODEL_TRANSISTOR}

\* Out[i..i+2] is the wrapper of one transistor type of technology model t:
\* the four-terminal header, one instance of the primitive, the footer
IsWrapperAt(i, t, trans_type) ==
  LET name == transistor_model_name(t, trans_type)
  IN /\ i + 2 <= Len(Out)
     /\ Len(Out[i].fields) = 6
     /\ FieldText(Out[i], 1) = ".subckt"
     /\ FieldText(Out[i], 2) = name \o TRANSISTOR_WRAPPER_POSTFIX
     /\ <<Drain(Out[i + 1]), Gate(Out[i + 1]), Source(Out[i + 1]), Bulk(Out[i + 1])>>
          = <<"drain", "gate", "source", "bulk">>
     /\ FieldText(Out[i + 1], 6) = name
     /\ IsEnds(Out[i + 2])

HasWrapper(t, trans_type) == \E i \in 1..Len(Out) : IsWrapperAt(i, t, trans_type)

-----------------------------------------------------------------------------
(* C5: when the wrapper pass has returned and the stream took every line,  *)
(* each transistor model of the library has its PMOS and its NMOS wrapper, *)
(* and nothing else follows the banner.                                    *)

EveryTransistorWrapped ==
  (WrapperPassReturned /\ fp.good) =>
    /\ \A t \in TransistorIds :
         HasWrapper(t, TECH_LIB_TRANSISTOR_PMOS) /\ HasWrapper(t, TECH_LIB_TRANSISTOR_NMOS)
    /\ Len(Out) = 1 + 6 * Cardinality(TransistorIds)

-----------------------------------------------------------------------------
(* C6: the wrapper pass returns fatal only if the stream failed, and with  *)
(* a stream that took every line it closes the file, registers it and      *)
(* returns success.                                                        *)

WrapperPassOutcome ==
  WrapperPassReturned =>
    /\ status = CMD_EXEC_FATAL_ERROR => ~fp.good
    /\ fp.good =>
         /\ status = CMD_EXEC_SUCCESS
         /\ fp.closed_by = "close"
         /\ \E n \in 1..Len(netlist_manager) :
              netlist_manager[n].name = TRANSISTORS_SPICE_FILE_NAME

-----------------------------------------------------------------------------
(* C7: once a driver has returned, with whatever status, its stream is     *)
(* closed.                                                                 *)

-----------------------------------------------------------------------------
(* C8: when the driver reaches a model without external netlist, of type   *)
(* INVBUF, PASSGATE or GATE, that has no binding, the pass returns fatal   *)
(* and no later model is processed or writes anything.                     *)

VisitedIds == {visited[i] : i \in 1..Len(visited)}

Unbound(m) ==
  /\ circuit_lib[m].circuit_netlist = ""
  /\ circuit_lib[m].type \in {CIRCUIT_MODEL_INVBUF, CIRCUIT_MODEL_PASSGATE, CIRCUIT_MODEL_GATE}
  /\ circuit_tech_binding[m] = 0

MissingBindingIsFatal ==
  driver = "print_spice_essential_gates" =>
    \A m \in VisitedIds :
      Unbound(m) =>
        /\ pc = "returned"
        /\ status = CMD_EXEC_FATAL_ERROR
        /\ \A j \in VisitedIds : j <= m
        /\ \A j \in (m + 1)..Len(circuit_lib) :
             \A i \in 1..Len(Out) : ~IsHeaderOf(Out[i], j)

\* an unbound GATE model followed by a bound inverter that is never written
MissingBindingIsFatalWitness ==
  /\ driver = "print_spice_essential_gates"
  /\ \E m \in VisitedIds :
       /\ Unbound(m)
       /\ circuit_lib[m].type = CIRCUIT_MODEL_GATE
       /\ m < Len(circuit_lib)
       /\ circuit_lib[m + 1].type = CIRCUIT_MODEL_INVBUF
       /\ circuit_lib[m + 1].circuit_netlist = ""
       /\ circuit_tech_binding[m + 1] # 0
       /\ tech_lib[1].type = TECH_LIB_MODEL_TRANSISTOR

-----------------------------------------------------------------------------
(* C11: regular versus power-gated output.  Without its chain switches,    *)
(* the subcircuit of a power-gated model is line by line the subcircuit    *)
(* the regular routine writes for the same model: the core devices have    *)
(* the same instance name, drain, gate, bulk, wrapper and width, in the    *)
(* same order; only the source is the last chain node and not the rail.    *)

\* the header, the footer and the lines between them
Frame(m) == SubSeq(Out, FrameStart(m), FrameEnd(m))

ChainFree(lines) ==
  SelectSeq(lines, LAMBDA l : ~(IsChain(l, "pmos") \/ IsChain(l, "nmos")))

\* what the regular routine of the same buffer type writes for model m
RegularTwin(m) ==
  (IF IsBuffer(m)
   THEN print_spice_regular_buffer_subckt(OpenedStream, m, m, circuit_tech_binding[m])
   ELSE print_spice_regular_inverter_subckt(OpenedStream, m, m, circuit_tech_binding[m])
  ).fp.lines

WrapperOf(l) == FieldText(l, 6)

SameCoreDevice(gated, regular, polarity, k) ==
  /\ IsCore(gated, polarity)
  /\ Text(InstName(gated)) = Text(InstName(regular))
  /\ Drain(gated) = Drain(regular)
  /\ Gate(gated) = Gate(regular)
  /\ Bulk(gated) = Bulk(regular)
  /\ WrapperOf(gated) = WrapperOf(regular)
  /\ Len(gated.fields) = Len(regular.fields)
  /\ Width(gated) = Width(regular)
  /\ Source(regular) = Rail(polarity)
  /\ Source(gated) = ChainNode(Drain(gated), polarity, k - 1)

RegularPowergatedEquivalence ==
  \A m \in GatedFrames :
    LET gated == ChainFree(Frame(m))
        regular == RegularTwin(m)
    IN /\ Len(gated) = Len(regular)
       /\ \A i \in 1..Len(regular) :
            IF IsDevice(regular[i])
            THEN \E polarity \in Polarities :
                   /\ IsCore(regular[i], polarity)
                   /\ SameCoreDevice(gated[i], regular[i], polarity, NumPins(m, polarity))
            ELSE gated[i] = regular[i]

-----------------------------------------------------------------------------
(* C12: dispatch.  Every inverter/buffer model the driver works on gets    *)
(* exactly one subcircuit, and it is the one written by the routine that   *)
(* (buffer_type, is_power_gated) names: regular or power-gated inverter,   *)
(* regular or power-gated buffer.                                          *)

\* the lines of the routine the dispatch table names for model m
TopologyByTable(m) ==
  LET bt == circuit_lib[m].buffer_type
      pg == circuit_lib[m].is_power_gated
      tm == circuit_tech_binding[m]
  IN (CASE bt = CIRCUIT_MODEL_BUF_INV /\ ~pg ->
             print_spice_regular_inverter_subckt(OpenedStream, m, m, tm)
        [] bt = CIRCUIT_MODEL_BUF_INV /\ pg ->
             print_spice_powergated_inverter_subckt(OpenedStream, m, m, tm)
        [] bt = CIRCUIT_MODEL_BUF_BUF /\ ~pg ->
             print_spice_regular_buffer_subckt(OpenedStream, m, m, tm)
        [] bt = CIRCUIT_MODEL_BUF_BUF /\ pg ->
             print_spice_powergated_buffer_subckt(OpenedStream, m, m, tm)).fp.lines

Headers(m) == {i \in 1..Len(Out) : IsHeaderOf(Out[i], m)}

\* an inverter/buffer model the driver has handed to a topology routine
Dispatched(m) ==
  /\ m \in VisitedIds
  /\ circuit_lib[m].type = CIRCUIT_MODEL_INVBUF
  /\ circuit_lib[m].circuit_netlist = ""
  /\ circuit_tech_binding[m] # 0
  /\ tech_lib[circuit_tech_binding[m]].type = TECH_LIB_MODEL_TRANSISTOR

DispatchCorrect ==
  (driver = "print_spice_essential_gates" /\ fp.good /\ pc # "aborted") =>
    \A m \in 1..Len(circuit_lib) :
      /\ Dispatched(m) => Cardinality(Headers(m)) = 1
      /\ m \in Frames => Dispatched(m) /\ Frame(m) = TopologyByTable(m)

\* a power-gated inverter and its subcircuit, chain switches included
DispatchCorrectWitness ==
  \E m \in GatedFrames :
    /\ ~IsBuffer(m)
    /\ Dispatched(m)
    /\ \E i \in 1..Len(Frame(m)) : IsChain(Frame(m)[i], "nmos")
    /\ pc = "returned"

-----------------------------------------------------------------------------
(* C13: a fatal status of a stage emitter or topology routine goes up      *)
(* through every caller at once: nothing more is streamed, neither device  *)
(* line nor footer, the driver takes no further model, leaves its loop and *)
(* returns the fatal status.                                               *)

EmitterFatalPropagates ==
  (driver = "print_spice_essential_gates" /\ fp.fatal) =>
    /\ fp.late = 0
    /\ pc \in {"gates_break", "gates_closed", "returned"}
    /\ status = CMD_EXEC_FATAL_ERROR
    /\ visited # <<>>
    /\ visited[Len(visited)] = imodel
    /\ \A j \in VisitedIds : j <= imodel
    /\ \A i \in Headers(imodel) : \A k \in i..Len(Out) : ~IsEnds(Out[k])

\* the stream fails inside the subcircuit of the first of two inverters:
\* the subcircuit stays without footer, the pass returns fatal and the
\* second inverter is never taken
EmitterFatalPropagatesWitness ==
  /\ driver = "print_spice_essential_gates"
  /\ fp.fatal
  /\ pc = "returned"
  /\ status = CMD_EXEC_FATAL_ERROR
  /\ Len(circuit_lib) = 2
  /\ imodel = 1
  /\ circuit_lib[2].type = CIRCUIT_MODEL_INVBUF
  /\ circuit_lib[2].circuit_netlist = ""
  /\ circuit_tech_binding[2] # 0
  /\ Headers(1) # {}
  /\ ~IsEnds(Out[Len(Out)])
  /\ 2 \notin VisitedIds

-----------------------------------------------------------------------------
(* C14: finalisation of print_spice_essential_gates.  The file is          *)
(* registered at most once, as a submodule netlist, and only when the      *)
(* loop is over and fp.close() has closed the stream; a pass without fatal *)
(* condition takes every model, registers the file and returns success.    *)

Registered ==
  {n \in 1..Len(netlist_manager) : netlist_manager[n].name = ESSENTIALS_SPICE_FILE_NAME}

AllModels == [m \in 1..Len(circuit_lib) |-> m]

FinalisedState ==
  driver = "print_spice_essential_gates" =>
    /\ Len(netlist_manager) <= 1
    /\ \A n \in 1..Len(netlist_manager) :
         netlist_manager[n] = [name |-> ESSENTIALS_SPICE_FILE_NAME,
                               type |-> SUBMODULE_NETLIST]
    /\ netlist_manager # <<>> =>
         pc = "returned" /\ ~fp.is_open /\ fp.closed_by = "close"
    /\ (pc = "returned" /\ status = CMD_EXEC_SUCCESS) =>
         Cardinality(Registered) = 1 /\ visited = AllModels
    /\ (pc = "returned" /\ fp.good /\ \A m \in 1..Len(circuit_lib) : ~Unbound(m)) =>
         status = CMD_EXEC_SUCCESS

\* the step that registers the file starts with the stream closed
RegistersAfterClose ==
  (driver = "print_spice_essential_gates"
   /\ Len(netlist_manager') > Len(netlist_manager)) =>
    /\ ~fp.is_open
    /\ fp.closed_by = "close"
    /\ pc' = "returned"
    /\ status' = status

FinalisedAfterClose == []FinalisedState /\ [][RegistersAfterClose]_vars

\* two models, one of them written, the file closed and registered
FinalisedAfterCloseWitness ==
  /\ driver = "print_spice_essential_gates"
  /\ pc = "returned"
  /\ status = CMD_EXEC_SUCCESS
  /\ fp.good
  /\ Len(circuit_lib) = 2
  /\ Frames # {}
  /\ Cardinality(Registered) = 1
  /\ fp.closed_by = "close"

-----------------------------------------------------------------------------
(* C15: bypass.  When the loop of print_spice_essential_gates stands at a  *)
(* model with an externally supplied netlist, its step streams nothing,    *)
(* keeps the status and goes on with the next model, whatever the model's  *)
(* type and binding; no subcircuit of such a model is ever in the output.  *)

Bypassed(m) == circuit_lib[m].circuit_netlist # ""

NoTextForBypassed ==
  driver = "print_spice_essential_gates" =>
    \A m \in 1..Len(circuit_lib) : Bypassed(m) => Headers(m) = {}

BypassStep ==
  (/\ driver = "print_spice_essential_gates"
   /\ pc = "gates_loop"
   /\ imodel <= Len(circuit_lib)
   /\ Bypassed(imodel)) =>
    /\ fp' = fp
    /\ status' = status
    /\ status' = CMD_EXEC_SUCCESS
    /\ pc' = "gates_loop"
    /\ imodel' = imodel + 1
    /\ netlist_manager' = netlist_manager

BypassSkipsModel == []NoTextForBypassed /\ [][BypassStep]_vars

\* an inverter with external netlist and without binding was passed over,
\* the inverter after it was written, and the pass returned success
BypassSkipsModelWitness ==
  /\ driver = "print_spice_essential_gates"
  /\ pc = "returned"
  /\ status = CMD_EXEC_SUCCESS
  /\ \E m \in VisitedIds :
       /\ Bypassed(m)
       /\ circuit_lib[m].type = CIRCUIT_MODEL_INVBUF
       /\ circuit_tech_binding[m] = 0
       /\ (m + 1) \in Frames

-----------------------------------------------------------------------------
(* C16: a binding is looked up for INVBUF, PASSGATE and GATE only.  The    *)
(* step of a model of another type, without external netlist, never        *)
(* returns or aborts, with or without binding entry and whatever the entry *)
(* points to: the pass goes on with the next model.                        *)

OtherType(m) ==
  circuit_lib[m].type \notin
    {CIRCUIT_MODEL_INVBUF, CIRCUIT_MODEL_PASSGATE, CIRCUIT_MODEL_GATE}

OtherTypeStep ==
  (/\ driver = "print_spice_essential_gates"
   /\ pc = "gates_loop"
   /\ imodel <= Len(circuit_lib)
   /\ ~Bypassed(imodel)
   /\ OtherType(imodel)) =>
    /\ pc' = "gates_loop"
    /\ imodel' = imodel + 1
    /\ status' = CMD_EXEC_SUCCESS
    /\ fp' = fp

BindingOnlyWhereNeeded == [][OtherTypeStep]_vars

\* a model of another type without binding entry, and one bound to a
\* technology model that is no transistor, were passed; the pass returned
\* success
BindingOnlyWhereNeededWitness ==
  /\ driver = "print_spice_essential_gates"
  /\ pc = "returned"
  /\ status = CMD_EXEC_SUCCESS
  /\ tech_lib = <<RramModel>>
  /\ \E m, n \in VisitedIds :
       /\ OtherType(m) /\ ~Bypassed(m) /\ circuit_tech_binding[m] = 0
       /\ OtherType(n) /\ ~Bypassed(n) /\ circuit_tech_binding[n] = 1

-----------------------------------------------------------------------------
(* C17: structural preconditions.  A model handed to a topology routine    *)
(* without exactly one size-1 input and one size-1 output port, a          *)
(* power-gated one without valid enable or enable-bar port, or a buffer    *)
(* with fewer than two levels, ends the run in a failed assertion, and no  *)
(* device line is written for it.  (A routine entered with a stream that   *)
(* is not valid returns fatal before it comes to its assertions.)          *)

Malformed(m) ==
  LET c == circuit_lib[m]
  IN \/ ~(Len(c.input_ports) = 1 /\ c.input_ports[1].size = 1)
     \/ ~(Len(c.output_ports) = 1 /\ c.output_ports[1].size = 1)
     \/ c.is_power_gated /\ (c.en_size = 0 \/ c.enb_size = 0)
     \/ c.buffer_type = CIRCUIT_MODEL_BUF_BUF /\ c.buffer_num_levels < 2

PreconditionRejection ==
  driver = "print_spice_essential_gates" =>
    \A m \in VisitedIds :
      (Dispatched(m) /\ Malformed(m)) =>
        /\ pc = "aborted" \/ (fp.fatal /\ Headers(m) = {})
        /\ m = visited[Len(visited)]
        /\ \A i \in Headers(m) : \A k \in i..Len(Out) : ~IsDevice(Out[k])

\* a power-gated buffer with one level: the header is the last line written
PreconditionRejectionWitness ==
  /\ driver = "print_spice_essential_gates"
  /\ pc = "aborted"
  /\ \E m \in VisitedIds :
       /\ Dispatched(m)
       /\ IsBuffer(m)
       /\ circuit_lib[m].is_power_gated
       /\ circuit_lib[m].buffer_num_levels = 1
       /\ Headers(m) = {Len(Out)}

-----------------------------------------------------------------------------
(* C18: determinism.  A pass of print_spice_essential_gates over the same  *)
(* circuit library, technology library and binding as the pass before      *)
(* writes the same lines and returns the same status, when both streams    *)
(* took every line; and the subcircuits stand in the order of the models   *)
(* in the circuit library.                                                 *)

SameTextAsBefore ==
  (/\ driver = "print_spice_essential_gates"
   /\ pc = "returned"
   /\ fp.good
   /\ last_pass.driver = "print_spice_essential_gates"
   /\ last_pass.good) =>
    /\ fp.lines = last_pass.lines
    /\ status = last_pass.status

InLibraryOrder ==
  \A m, n \in Frames : m < n => FrameEnd(m) < FrameStart(n)

-----------------------------------------------------------------------------
(* C19: instance names.  Within one subcircuit no two device lines, core   *)
(* devices and chain switches alike, have the same instance name.          *)

NamesDistinct(body) ==
  \A i, j \in 1..Len(body) :
    (i < j /\ IsDevice(body[i]) /\ IsDevice(body[j])) =>
      Text(InstName(body[i])) # Text(InstName(body[j]))

InstanceNamesUnique == \A m \in Frames : NamesDistinct(Body(m))

\* a power-gated buffer of three levels, two pins on each gating port, and
\* several bins in its last level
InstanceNamesUniqueWitness ==
  \E m \in GatedFrames :
    /\ IsBuffer(m)
    /\ circuit_lib[m].buffer_num_levels = 3
    /\ NumPins(m, "pmos") = 2
    /\ NumPins(m, "nmos") = 2
    /\ Len(CoreLines(m, "nmos", 2)) >= 2
    /\ Len(CoreLines(m, "pmos", 2)) >= 2

-----------------------------------------------------------------------------
(* C20: stage scaling.  In a buffer of base size S and factor f, regular   *)
(* or power-gated, the size used for level k is S * f^k: the core devices  *)
(* of level k have this size in total, in units of the minimum width       *)
(* (times the P/N ratio for PMOS).                                         *)

RECURSIVE Power(_, _)
Power(f, k) == IF k = 0 THEN 1 ELSE f * Power(f, k - 1)

\* the width of a stage of size 1
UnitWidth(m, polarity) ==
  IF polarity = "pmos" THEN TechOf(m).pn_ratio * TechOf(m).pmos.min_width
                       ELSE TechOf(m).nmos.min_width

Scaled(m, k) == circuit_lib[m].buffer_size * Power(circuit_lib[m].buffer_f_per_stage, k)

StageScaling ==
  \A m \in Frames :
    IsBuffer(m) =>
      \A k \in 0..(circuit_lib[m].buffer_num_levels - 1) :
        /\ buffer_widths(m, k) = Scaled(m, k)
        /\ \A polarity \in Polarities :
             SumWidths(CoreLines(m, polarity, k)) = Scaled(m, k) * UnitWidth(m, polarity)

\* S = 2, f = 2, three levels: sizes 2, 4, 8, in both kinds of buffer
StageScalingWitness ==
  \E m \in Frames :
    /\ IsBuffer(m)
    /\ circuit_lib[m].buffer_size = 2
    /\ circuit_lib[m].buffer_f_per_stage = 2
    /\ circuit_lib[m].buffer_num_levels = 3
    /\ SumWidths(CoreLines(m, "nmos", 0)) = 2 * UnitWidth(m, "nmos")
    /\ SumWidths(CoreLines(m, "nmos", 1)) = 4 * UnitWidth(m, "nmos")
    /\ SumWidths(CoreLines(m, "nmos", 2)) = 8 * UnitWidth(m, "nmos")

-----------------------------------------------------------------------------
(* C21: monotone stages.  With buffer_f_per_stage >= 1 the size of a       *)
(* level, the total PMOS and NMOS width of the level and its number of     *)
(* bins never go down from one level to the next.                          *)

LevelNotSmaller(m, k) ==
  /\ buffer_widths(m, k) <= buffer_widths(m, k + 1)
  /\ \A polarity \in Polarities :
       /\ SumWidths(CoreLines(m, polarity, k)) <= SumWidths(CoreLines(m, polarity, k + 1))
       /\ Len(CoreLines(m, polarity, k)) <= Len(CoreLines(m, polarity, k + 1))

StageMonotone ==
  \A m \in Frames :
    (IsBuffer(m) /\ circuit_lib[m].buffer_f_per_stage >= 1) =>
      \A k \in 0..(circuit_lib[m].buffer_num_levels - 2) : LevelNotSmaller(m, k)

\* three levels whose numbers of NMOS bins grow strictly
StageMonotoneWitness ==
  \E m \in Frames :
    /\ IsBuffer(m)
    /\ circuit_lib[m].buffer_f_per_stage = 2
    /\ circuit_lib[m].buffer_num_levels = 3
    /\ Len(CoreLines(m, "nmos", 0)) < Len(CoreLines(m, "nmos", 1))
    /\ Len(CoreLines(m, "nmos", 1)) < Len(CoreLines(m, "nmos", 2))

-----------------------------------------------------------------------------
(* C22: the P/N ratio sizes PMOS only.  In every subcircuit the PMOS core  *)
(* devices of a stage of size s share s * pn_ratio * min_width(PMOS) among *)
(* bins of at most max_width(PMOS); the NMOS core devices share            *)
(* s * min_width(NMOS), without the ratio, among bins of at most           *)
(* max_width(NMOS).                                                        *)

StageSize(m, k) == IF IsBuffer(m) THEN Scaled(m, k) ELSE circuit_lib[m].buffer_size

\* the bins share `total`, each at most `max`, as few as possible
SharedAmong(bins, total, max) ==
  /\ SumWidths(bins) = total
  /\ \A i \in 1..Len(bins) : Width(bins[i]) <= max
  /\ (Len(bins) - 1) * max < total
  /\ total <= Len(bins) * max

PnRatioOnlyPmos ==
  \A m \in Frames : \A k \in Levels(m) :
    /\ SharedAmong(CoreLines(m, "pmos", k),
                   StageSize(m, k) * TechOf(m).pn_ratio * TechOf(m).pmos.min_width,
                   TechOf(m).pmos.max_width)
    /\ SharedAmong(CoreLines(m, "nmos", k),
                   StageSize(m, k) * TechOf(m).nmos.min_width,
                   TechOf(m).nmos.max_width)

\* ratio 2, PMOS 2..3 wide, NMOS 1..2 wide, size 2: PMOS 3 + 3 + 2, NMOS 2
PnRatioOnlyPmosWitness ==
  \E m \in Frames :
    /\ ~IsBuffer(m)
    /\ circuit_lib[m].buffer_size = 2
    /\ TechOf(m).pn_ratio = 2
    /\ TechOf(m).pmos.min_width = 2 /\ TechOf(m).pmos.max_width = 3
    /\ TechOf(m).nmos.min_width = 1 /\ TechOf(m).nmos.max_width = 2
    /\ Len(CoreLines(m, "pmos", 0)) = 3
    /\ Len(CoreLines(m, "nmos", 0)) = 1

-----------------------------------------------------------------------------
(* C23: chain sizing.  Every chain switch has the width of the core device *)
(* of its own bin and polarity, and the wrapper of its own polarity.       *)

WrapperName(m, polarity) ==
  (IF polarity = "pmos" THEN TechOf(m).pmos.name ELSE TechOf(m).nmos.name)
    \o ToString(circuit_tech_binding[m]) \o TRANSISTOR_WRAPPER_POSTFIX

\* the core devices of the bin that chain switch l belongs to
CoresOfBin(body, l, polarity) ==
  {j \in 1..Len(body) : IsCore(body[j], polarity) /\ Postfix(body[j]) = Postfix(l)}

SizedAsCore(m, body, i, polarity) ==
  /\ Cardinality(CoresOfBin(body, body[i], polarity)) = 1
  /\ \A j \in CoresOfBin(body, body[i], polarity) : Width(body[i]) = Width(body[j])
  /\ WrapperOf(body[i]) = WrapperName(m, polarity)

ChainSizing ==
  \A m \in GatedFrames : \A polarity \in Polarities :
    \A i \in 1..Len(Body(m)) :
      IsChain(Body(m)[i], polarity) => SizedAsCore(m, Body(m), i, polarity)

\* NMOS switches of two widths in one subcircuit: those of a full bin and
\* those of the last, smaller bin
ChainSizingWitness ==
  \E m \in GatedFrames :
    \E i, j \in 1..Len(Body(m)) :
      /\ IsChain(Body(m)[i], "nmos")
      /\ IsChain(Body(m)[j], "nmos")
      /\ Width(Body(m)[i]) = TechOf(m).nmos.max_width
      /\ Width(Body(m)[j]) < TechOf(m).nmos.max_width
      /\ Width(Body(m)[j]) > TechOf(m).nmos.min_width

-----------------------------------------------------------------------------
(* C24: subcircuit frame.  When the stream took every line, each model     *)
(* that a topology routine has written has one header, after it device     *)
(* lines only, then its footer; every device line and every footer lies in *)
(* such a frame, so that frames neither nest nor interleave.               *)

\* lines i..j are a frame of model m
IsFrameOf(m, i, j) ==
  /\ i < j
  /\ IsHeaderOf(Out[i], m)
  /\ IsEnds(Out[j])
  /\ \A k \in (i + 1)..(j - 1) : IsDevice(Out[k])

\* line k lies in the frame of some model
Framed(k) ==
  \E m \in 1..Len(circuit_lib) : \E i \in 1..k : \E j \in k..Len(Out) : IsFrameOf(m, i, j)

-----------------------------------------------------------------------------
(* C25: regular stages.  In the subcircuit of a model that is not          *)
(* power-gated every bin of every level has exactly one device line per    *)
(* polarity: six fields, drain on the output net and gate on the input net *)
(* handed to the call, source and bulk on the rail (LVDD for PMOS, LGND    *)
(* for NMOS), the wrapper of the polarity, and the width of the bin.       *)

RegularFrames == {m \in Frames : ~circuit_lib[m].is_power_gated}

\* the number of bins of a stage
BinsOf(m, polarity, k) ==
  LET total == StageSize(m, k) * UnitWidth(m, polarity)
      max == MaxWidth(m, polarity)
  IN (total + max - 1) \div max

\* the width of bin b among n bins that share `total`
BinWidth(total, max, n, b) == IF b < n - 1 THEN max ELSE total - (n - 1) * max

\* the nets handed to the stage calls of level k of model m
NetsOfCall(m, k) ==
  LET input == circuit_lib[m].input_ports[1].prefix
      output == circuit_lib[m].output_ports[1].prefix
  IN IF IsBuffer(m)
     THEN StagePortNames(input, output,
                         IF k = 0 THEN input ELSE input \o "_level" \o ToString(k - 1),
                         IF k = 0 THEN output \o "_level0" ELSE output)
     ELSE [input_port_name |-> input, output_port_name |-> output]

IsRegularDevice(l, m, polarity, k, b) ==
  /\ Len(l.fields) = 6
  /\ Text(InstName(l)) = "X" \o polarity \o "_" \o BinPostfix(m, k, b)
  /\ Drain(l) = NetsOfCall(m, k).output_port_name
  /\ Gate(l) = NetsOfCall(m, k).input_port_name
  /\ Source(l) = Rail(polarity)
  /\ Bulk(l) = Rail(polarity)
  /\ WrapperOf(l) = WrapperName(m, polarity)
  /\ l.params = << <<"W", BinWidth(StageSize(m, k) * UnitWidth(m, polarity),
                                    MaxWidth(m, polarity), BinsOf(m, polarity, k), b)>> >>

\* the (polarity, level, bin) triples of model m
Calls(m) ==
  {c \in Polarities \X Levels(m) \X (0..Len(Out)) : c[3] < BinsOf(m, c[1], c[2])}

RegularStageDevices ==
  \A m \in RegularFrames :
    LET body == Body(m)
    IN /\ Len(body) = Cardinality(Calls(m))
       /\ \A c \in Calls(m) :
            Cardinality({i \in 1..Len(body) :
                           IsRegularDevice(body[i], m, c[1], c[2], c[3])}) = 1

\* a regular buffer with two PMOS bins in its second level
RegularStageDevicesWitness ==
  \E m \in RegularFrames :
    /\ IsBuffer(m)
    /\ BinsOf(m, "pmos", 1) = 2
    /\ BinsOf(m, "nmos", 1) = 1
    /\ \E i \in 1..Len(Body(m)) : IsRegularDevice(Body(m)[i], m, "pmos", 1, 1)

-----------------------------------------------------------------------------
(* C26: a pass-gate or gate model that is not bypassed and is bound to a   *)
(* transistor technology model is passed without effect: the step over it  *)
(* leaves the stream and the status as they were, and no subcircuit of     *)
(* such a model is ever in the output.                                     *)

PassgateOrGate(m) ==
  circuit_lib[m].type \in {CIRCUIT_MODEL_PASSGATE, CIRCUIT_MODEL_GATE}

ValidBinding(m) ==
  /\ circuit_tech_binding[m] \in 1..Len(tech_lib)
  /\ tech_lib[circuit_tech_binding[m]].type = TECH_LIB_MODEL_TRANSISTOR

PassgateOrGateStep ==
  (/\ driver = "print_spice_essential_gates"
   /\ pc = "gates_loop"
   /\ imodel <= Len(circuit_lib)
   /\ ~Bypassed(imodel)
   /\ PassgateOrGate(imodel)
   /\ ValidBinding(imodel)) =>
    /\ fp' = fp
    /\ status' = status
    /\ netlist_manager' = netlist_manager
    /\ pc' = "gates_loop"
    /\ imodel' = imodel + 1

NoTextForPassgateOrGate ==
  driver = "print_spice_essential_gates" =>
    \A m \in 1..Len(circuit_lib) : PassgateOrGate(m) => Headers(m) = {}

-----------------------------------------------------------------------------
(* C27: chain gate control.  In the enable-bar chain and in the enable     *)
(* chain alike, the gate of the switch of pin i is the net of pin i of the *)
(* gating port, ENb[i] or EN[i], for the first pin and for every later     *)
(* pin.                                                                    *)

\* the port that gates one polarity
GatingPort(m, polarity) ==
  IF polarity = "pmos"
  THEN find_circuit_model_power_gate_enb_port(m)
  ELSE find_circuit_model_power_gate_en_port(m)

GateIsPinNet(l, m, polarity) ==
  \E n \in 0..(NumPins(m, polarity) - 1) :
    /\ PinOf(l) = ToString(n)
    /\ Gate(l) = generate_spice_port(GatingPort(m, polarity).prefix, n)

ChainGateControl ==
  \A m \in GatedFrames : \A polarity \in Polarities :
    \A i \in 1..Len(Body(m)) :
      IsChain(Body(m)[i], polarity) => GateIsPinNet(Body(m)[i], m, polarity)

-----------------------------------------------------------------------------
(* C28: chain node sharing.  In a power-gated subcircuit the intermediate  *)
(* net that the switch of pin i produces is named by the output port, the  *)
(* polarity and the pin index alone: the switches of pin i of any two bins *)
(* and any two levels of one polarity lie on the same net.                 *)

\* the net a chain switch produces: the drain of the first switch, the
\* source of a later one
ProducedNode(l) == IF PinOf(l) = "0" THEN Drain(l) ELSE Source(l)

ChainLinesOf(m, polarity) ==
  {i \in 1..Len(Body(m)) : IsChain(Body(m)[i], polarity)}

-----------------------------------------------------------------------------
(* C29: registration and outcome.  A pass of print_spice_essential_gates   *)
(* that returns has closed and registered its file unless it returned at a *)
(* model without binding: after a fatal status of a topology routine the   *)
(* file is closed and registered and the pass returns fatal; at a missing  *)
(* binding the pass returns fatal with nothing registered.                 *)

MissingBindingReturn == \E m \in VisitedIds : Unbound(m)

RegistrationVsOutcome ==
  (driver = "print_spice_essential_gates" /\ pc = "returned") =>
    IF MissingBindingReturn
    THEN /\ status = CMD_EXEC_FATAL_ERROR
         /\ netlist_manager = <<>>
         /\ fp.closed_by # "close"
    ELSE /\ Cardinality(Registered) = 1
         /\ netlist_manager[1].type = SUBMODULE_NETLIST
         /\ fp.closed_by = "close"

\* a topology routine returned fatal; the file, one subcircuit in it, was
\* closed and registered and the pass returned fatal
RegistrationVsOutcomeWitness ==
  /\ driver = "print_spice_essential_gates"
  /\ pc = "returned"
  /\ status = CMD_EXEC_FATAL_ERROR
  /\ ~MissingBindingReturn
  /\ Cardinality(Registered) = 1
  /\ \E i \in 1..Len(fp.lines) : IsEnds(fp.lines[i])

-----------------------------------------------------------------------------
(* C30: set-once atom nets.  Over any sequence of calls of                 *)
(* update_primitive_physical_pb_pin_atom_net a physical pin that carries a *)
(* valid atom net keeps it: a later call for the pin either brings the     *)
(* same net and changes nothing, or fails an assertion; a call for a pin   *)
(* without route entry leaves the physical pb as it was.                   *)

PbKeys == Pbs \X PbPins

\* no pin that carries a net is given another, or loses it
NeverOverwritten ==
  \A k \in PbKeys : phy_pb[k] # INVALID_ATOM_NET => phy_pb'[k] = phy_pb[k]

\* the call made by the step is for a pin that carries a net
LaterCall ==
  /\ last_call'.route.count = 1
  /\ last_call'.route.atom_net_id # INVALID_ATOM_NET
  /\ last_call'.physical_pb_graph_pin # NoPhysicalPin
  /\ phy_pb[<<last_call'.primitive_pb, last_call'.physical_pb_graph_pin>>] # INVALID_ATOM_NET

SetOnceStep ==
  driver = "synchronize_primitive_physical_pb_atom_nets" =>
    /\ NeverOverwritten
    /\ LaterCall =>
         /\ phy_pb' = phy_pb
         /\ IF last_call'.route.atom_net_id
                 = phy_pb[<<last_call'.primitive_pb, last_call'.physical_pb_graph_pin>>]
            THEN pc' = pc
            ELSE pc' = "aborted"
    /\ last_call'.route.count = 0 => (phy_pb' = phy_pb /\ pc' = pc)

SetOnceAtomNet == [][SetOnceStep]_vars

\* a pin got its net, another pin got one, then a call brought the first pin
\* its net again and the synchronization went on
SetOnceAtomNetWitness ==
  /\ driver = "synchronize_primitive_physical_pb_atom_nets"
  /\ pc = "synchronizing"
  /\ last_call.route.count = 1
  /\ last_call.carried # INVALID_ATOM_NET
  /\ last_call.carried = last_call.route.atom_net_id
  /\ \A k \in PbKeys : phy_pb[k] # INVALID_ATOM_NET

====
